---- MODULE Spec2Model ----
(***************************************************************************)
(* Model of the Rockridge listing generator: the batch generator           *)
(* (RockridgePropertyGenerator), the insertion service                     *)
(* (PropertyDataInserter) and the orchestrator                             *)
(* (DataGenerationOrchestrator).                                           *)
(*                                                                         *)
(* Number representation.  JavaScript numbers that the code tests with     *)
(* Number.isInteger (bedrooms, bathrooms, sqft, price) are held in HALF    *)
(* units: the model value 6 is the number 3, the model value 3 is 1.5.     *)
(* Latitude and longitude are held in hundredths of a degree (3780 is      *)
(* 37.8).  yearBuilt is held in plain units.                               *)
(* An optional value is a sequence: << >> is null/undefined, <<v>> is v.   *)
(***************************************************************************)
EXTENDS Integers, Sequences, FiniteSets, TLC

\* ------------------------------------------------------------------ bounds
NumZpids == 2
MaxPhotos == 1
MaxBatch == 2
MaxCalls == 2
MaxRaceBatch == 1
MaxRequests == 4
MaxBatchSize == 3
MaxPermits == 4
MaxBedrooms == 6
StartTime == 100000

\* ------------------------------------------------------- program constants
YearMin == 1800
YearMax == 2024
LatMin == 3780
LatMax == 3790
LonMin == -12230
LonMax == -12220
Minute == 60000
DefaultRpm == 50

Zpids == 1..NumZpids
Procs == {1, 2}

VARIABLES
  store,           \* the relational store: committed rows of the four tables
  propertiesData,  \* per inserter: the argument of the running insertProperties call,
                   \* as far as the loop has read it
  insLen,          \* per inserter: propertiesData.length
  insIdx,          \* per inserter: position of the for-of loop (1-based)
  insertedCount,   \* per inserter: the local insertedCount
  insPc,           \* per inserter: "idle" | "check" | "tx" | "returned"
  outcomes,        \* per inserter: what was logged for each record of the call
  storeBefore,     \* per inserter: the store when the call started
  calls,           \* number of insertProperties calls started so far
  genRequests,     \* generatePropertyBatch: its argument `requests`
  genBatchSize,    \* generatePropertyBatch: its argument `batchSize`
  genI,            \* generatePropertyBatch: the loop variable i (0-based)
  genResults,      \* generatePropertyBatch: the local `results`
  genPc,           \* "idle" | "rate" | "call" | "pause" | "returned"
  genCalls,        \* the completion-endpoint calls made: slice sent, response got
  genPauses,       \* number of 1-second inter-slice pauses taken
  orchPc,          \* generateAllData: "none" | "start" | "prompt" | "generating" |
                   \* "saving" | "inserting" | "delay" | "summarizing" | "sample" |
                   \* "disconnect" | "returned" | "aborted" | "thrown"
  totalProperties, \* orchestrator: this.totalProperties
  batchSize,       \* orchestrator: this.batchSize
  requests,        \* generateAllData: the planned requests
  chunkIdx,        \* generateAllData: the chunk loop's chunkIdx (0-based)
  progress,        \* orchestrator: this.progress
  orchData,        \* generateAllData: the chunk's propertiesData
  rawFiles,        \* files written under data/raw_generated: name -> content
  promptAnswer,    \* what the operator answered to the confirmation prompt
  summary,         \* what printFinalSummary printed (<< >>: not printed)
  clock,           \* Date.now(), in milliseconds
  lastRequestTime, \* rate limiter: this.lastRequestTime
  requestCount,    \* rate limiter: this.requestCount
  resetTime,       \* rate limiter: this.resetTime
  maxRequestsPerMinute, \* rate limiter: this.rateLimitConfig.maxRequestsPerMinute
  ratePc,          \* enforceRateLimit: "out" | "limitWait" | "spacingWait"
  rateNow,         \* enforceRateLimit: the local `now`
  rateWake,        \* enforceRateLimit: when the pending timer is due
  permits,         \* the times at which enforceRateLimit returned, in order
  mainPc,          \* main(): "none" | "start" | "generate" | "validate" |
                   \* "validateSample" | "validateDisconnect" | "caught" | "done" | "exited"
  credential,      \* process.env.OPENAI_API_KEY (<< >>: not set)
  validateOnly,    \* options.validateOnly
  exitCode,        \* the process's exit code (<< >>: still running)
  exported,        \* what exportAllData has read back (<< >>: nothing yet)
  responseContent, \* generatePropertyBatchInternal: the response's message `content`
  parsedData,      \* generatePropertyBatchInternal: what JSON.parse returned or threw
  planTotal,       \* createPropertyRequests: its argument totalProperties
  planI,           \* createPropertyRequests: the loop variable i
  planRequests,    \* createPropertyRequests: the local `requests`
  planDraw,        \* createPropertyRequests: the random draws of the last iteration
  currentYear      \* the calendar year in which the process runs

insVars == <<propertiesData, insLen, insIdx, insertedCount, insPc, outcomes, storeBefore, calls>>
genVars == <<genRequests, genBatchSize, genI, genResults, genPc, genCalls, genPauses>>
orchVars == <<orchPc, totalProperties, batchSize, requests, chunkIdx, progress, orchData,
              rawFiles, promptAnswer, summary>>
rateVars == <<clock, lastRequestTime, requestCount, resetTime, maxRequestsPerMinute, ratePc,
              rateNow, rateWake, permits>>
mainVars == <<mainPc, credential, validateOnly, exitCode>>
pureVars == <<responseContent, parsedData, planTotal, planI, planRequests, planDraw, currentYear>>
auxVars == <<rateVars, mainVars, exported, pureVars>>
vars == <<store, insVars, genVars, orchVars, auxVars>>

\* ---------------------------------------------------------------- records
RequiredFields ==
  {"zpid", "address", "zipCode", "latitude", "longitude", "bedrooms",
   "bathrooms", "sqft", "yearBuilt", "propertyType", "price"}

ListingData == [listDate |-> "2024-05-22T10:00:00Z"]
FeaturesData == [fireplace |-> << >>, walkabilityScore |-> << >>]
PhotoData == [caption |-> <<"Living room">>, isPrimary |-> << >>, sortOrder |-> << >>]

\* A generated record that passes validation, with no sub-records.
BareRecord(z) ==
  [zpid |-> z, missing |-> {}, address |-> "5500 College Ave", zipCode |-> "94618",
   latitude |-> 3785, longitude |-> -12225,
   bedrooms |-> 6, bathrooms |-> 4, sqft |-> 3000, yearBuilt |-> 1925,
   propertyType |-> "single_family", price |-> 3000000, status |-> << >>,
   listing |-> << >>, features |-> << >>, photos |-> << >>]

\* The same with a Listing Detail, a Feature Set and MaxPhotos photos.
FullRecord(z) ==
  [BareRecord(z) EXCEPT !.address = "6100 Keith Ave",
                        !.listing = <<ListingData>>,
                        !.features = <<FeaturesData>>,
                        !.photos = [i \in 1..MaxPhotos |-> PhotoData]]

\* Records that sit on the wrong side of one of the validated bounds.
DefectRecords ==
  { [FullRecord(1) EXCEPT !.bedrooms = 0],
    [FullRecord(1) EXCEPT !.sqft = 0],
    [FullRecord(1) EXCEPT !.price = 0],
    [FullRecord(1) EXCEPT !.latitude = LatMin - 1],
    [FullRecord(1) EXCEPT !.latitude = LatMax + 1],
    [FullRecord(1) EXCEPT !.longitude = LonMin - 1],
    [FullRecord(1) EXCEPT !.longitude = LonMax + 1] }

GoodRecords == {BareRecord(z) : z \in Zpids} \cup {FullRecord(z) : z \in Zpids}

Records == GoodRecords \cup DefectRecords

\* ------------------------------------------------------------ validation
IsInteger(x) == x % 2 = 0

ValidateStrictSqft(propData) ==
  /\ \A f \in RequiredFields : f \notin propData.missing
  /\ ~(propData.bedrooms <= 0 \/ ~IsInteger(propData.bedrooms))
  /\ ~(propData.bathrooms <= 0)
  /\ ~(propData.sqft < 0 \/ ~IsInteger(propData.sqft))
  /\ ~(propData.price <= 0 \/ ~IsInteger(propData.price))
  /\ ~(propData.yearBuilt < YearMin \/ propData.yearBuilt > YearMax)
  /\ ~(propData.latitude < LatMin \/ propData.latitude > LatMax)
  /\ ~(propData.longitude < LonMin \/ propData.longitude > LonMax)

ValidatePropertyData(propData) ==
  /\ \A f \in RequiredFields : f \notin propData.missing
  /\ ~(propData.bedrooms <= 0 \/ ~IsInteger(propData.bedrooms))
  /\ ~(propData.bathrooms <= 0)
  /\ ~(propData.sqft <= 0 \/ ~IsInteger(propData.sqft))
  /\ ~(propData.price <= 0 \/ ~IsInteger(propData.price))
  /\ ~(propData.yearBuilt < YearMin \/ propData.yearBuilt > YearMax)
  /\ ~(propData.latitude < LatMin \/ propData.latitude > LatMax)
  /\ ~(propData.longitude < LonMin \/ propData.longitude > LonMax)

\* Records on both sides of every bound validatePropertyData tests, one field
\* at a time, and records with one required field missing.
ValidationRecords ==
  {[BareRecord(1) EXCEPT !.bedrooms = v] : v \in {-2, 0, 1, 2, 3}}
  \cup {[BareRecord(1) EXCEPT !.bathrooms = v] : v \in {-1, 0, 1, 3}}
  \cup {[BareRecord(1) EXCEPT !.sqft = v] : v \in {-2, 0, 1, 2}}
  \cup {[BareRecord(1) EXCEPT !.price = v] : v \in {-2, 0, 1, 2}}
  \cup {[BareRecord(1) EXCEPT !.yearBuilt = v] :
          v \in {YearMin - 1, YearMin, YearMax, YearMax + 1, YearMax + 2, YearMax + 3}}
  \cup {[BareRecord(1) EXCEPT !.latitude = v] : v \in {LatMin - 1, LatMin, LatMax, LatMax + 1}}
  \cup {[BareRecord(1) EXCEPT !.longitude = v] : v \in {LonMin - 1, LonMin, LonMax, LonMax + 1}}
  \cup {[BareRecord(1) EXCEPT !.missing = {f}] : f \in RequiredFields}

\* The years a run may take place in: the year of the bound, and later ones.
RunYears == {YearMax, YearMax + 1, YearMax + 2}

\* ------------------------------------------------------------------ store
EmptyStore == [properties |-> << >>, listings |-> << >>, features |-> << >>, photos |-> << >>]

\* opt ?? default
Coalesce(opt, default) == IF opt = << >> THEN default ELSE opt[1]

\* opt || default, for a string, a number and a boolean: a falsy value gives way
\* to the default as a missing one does.
OrElseStr(opt, default) == IF opt = << >> \/ opt[1] = "" THEN default ELSE opt[1]
OrElseNum(opt, default) == IF opt = << >> \/ opt[1] = 0 THEN default ELSE opt[1]
OrElseBool(opt, default) == IF opt = << >> \/ opt[1] = FALSE THEN default ELSE opt[1]

\* new Date(str) as the store keeps and returns it: the instant, written in the
\* form toISOString gives it.
NewDate(str) ==
  IF str \in {"2024-05-22T10:00:00Z", "2024-05-22T10:00:00.000Z"}
  THEN "2024-05-22T10:00:00.000Z"
  ELSE "Invalid Date"

FindUniqueNothing(st, zpid) == << >>

\* prisma.property.findUnique({ where: { zpid } }): the row, or null.
FindUnique(st, zpid) ==
  LET hits == {i \in 1..Len(st.properties) : st.properties[i].zpid = zpid}
  IN IF hits = {} THEN << >> ELSE <<st.properties[CHOOSE i \in hits : TRUE]>>

\* The row written by tx.property.create.
PropertyRow(propData, id) ==
  [id |-> id, zpid |-> propData.zpid, address |-> propData.address,
   city |-> "Oakland", state |-> "CA", zipCode |-> propData.zipCode,
   latitude |-> propData.latitude, longitude |-> propData.longitude,
   bedrooms |-> propData.bedrooms, bathrooms |-> propData.bathrooms,
   sqft |-> propData.sqft, yearBuilt |-> propData.yearBuilt,
   propertyType |-> propData.propertyType, price |-> propData.price,
   status |-> OrElseStr(propData.status, "For Sale")]

ListingRow(propData, id) ==
  [propertyId |-> id, listDate |-> NewDate(propData.listing[1].listDate)]

FeaturesRow(propData, id) ==
  [propertyId |-> id,
   fireplace |-> OrElseBool(propData.features[1].fireplace, FALSE),
   walkabilityScore |-> OrElseNum(propData.features[1].walkabilityScore, 80)]

PhotoRow(propData, id, i) ==
  [propertyId |-> id,
   photoUrl |-> <<"placeholder", propData.zpid, i>>,
   caption |-> propData.photos[i].caption,
   isPrimary |-> Coalesce(propData.photos[i].isPrimary, i = 1),
   sortOrder |-> Coalesce(propData.photos[i].sortOrder, i - 1)]

\* The unique constraints of the schema: zpid on properties, propertyId on
\* listings and on property_features.
UniqueZpidOff(st, zpid) == TRUE
UniqueZpid(st, zpid) == \A i \in 1..Len(st.properties) : st.properties[i].zpid # zpid
UniqueListing(st, id) == \A i \in 1..Len(st.listings) : st.listings[i].propertyId # id
UniqueFeatures(st, id) == \A i \in 1..Len(st.features) : st.features[i].propertyId # id

\* The writes of one record's transaction, in the order the callback issues them.
Writes(propData) ==
  <<[kind |-> "property", i |-> 0]>>
  \o (IF propData.listing # << >> THEN <<[kind |-> "listing", i |-> 0]>> ELSE << >>)
  \o (IF propData.features # << >> THEN <<[kind |-> "features", i |-> 0]>> ELSE << >>)
  \o [i \in 1..Len(propData.photos) |-> [kind |-> "photo", i |-> i]]

\* Does the store accept the write (no unique constraint violated)?
WriteAccepted(st, propData, id, w) ==
  CASE w.kind = "property" -> UniqueZpid(st, propData.zpid)
    [] w.kind = "listing" -> UniqueListing(st, id)
    [] w.kind = "features" -> UniqueFeatures(st, id)
    [] OTHER -> TRUE

ApplyWrite(st, propData, id, w) ==
  CASE w.kind = "property" ->
         [st EXCEPT !.properties = Append(@, PropertyRow(propData, id))]
    [] w.kind = "listing" ->
         [st EXCEPT !.listings = Append(@, ListingRow(propData, id))]
    [] w.kind = "features" ->
         [st EXCEPT !.features = Append(@, FeaturesRow(propData, id))]
    [] OTHER ->
         [st EXCEPT !.photos = Append(@, PhotoRow(propData, id, w.i))]

\* The transaction callback: the writes are applied one after the other to the
\* transaction's working state; write number failAt throws (0: none is made to
\* fail), and so does a write the store refuses.
RECURSIVE TxSteps(_, _, _, _, _)
TxSteps(work, propData, id, k, failAt) ==
  LET ws == Writes(propData)
  IN IF k > Len(ws) THEN [ok |-> TRUE, st |-> work]
     ELSE IF k = failAt \/ ~WriteAccepted(work, propData, id, ws[k])
          THEN [ok |-> FALSE, st |-> work]
          ELSE TxSteps(ApplyWrite(work, propData, id, ws[k]), propData, id, k + 1, failAt)

\* What a transaction that threw leaves in the store.
RollbackKeepsWrites(before, work) == work
Rollback(before, work) == before

\* prisma.$transaction(callback): commit when the callback returns, roll back
\* when it throws.
Transaction(st, propData, failAt) ==
  LET r == TxSteps(st, propData, Len(st.properties) + 1, 1, failAt)
  IN IF r.ok THEN [ok |-> TRUE, st |-> r.st]
     ELSE [ok |-> FALSE, st |-> Rollback(st, r.st)]

\* --------------------------------------------------------- insertProperties
CountAlways(count, inserted) == count + 1
CountAfter(count, inserted) == IF inserted THEN count + 1 ELSE count

CurrentRecordReversed(p) == propertiesData[p][insLen[p] + 1 - insIdx[p]]
CurrentRecord(p) == propertiesData[p][insIdx[p]]

\* The end of one iteration of the for-of loop: the next record, or the return.
NextPc(p) == IF insIdx[p] + 1 > insLen[p] THEN "returned" ELSE "check"

\* A caller starts insertProperties on a list of n records.
StartInsert(p, n) ==
  /\ insLen' = [insLen EXCEPT ![p] = n]
  /\ insIdx' = [insIdx EXCEPT ![p] = 1]
  /\ insertedCount' = [insertedCount EXCEPT ![p] = 0]
  /\ outcomes' = [outcomes EXCEPT ![p] = << >>]
  /\ storeBefore' = [storeBefore EXCEPT ![p] = store]
  /\ insPc' = [insPc EXCEPT ![p] = IF n = 0 THEN "returned" ELSE "check"]
  /\ calls' = calls + 1

\* The environment calls insertProperties with a list of up to maxLen records,
\* from one of the positions in `from` (a caller may call again after a return).
\* The loop reads element k of the list only in iteration k, so the list's
\* elements are drawn when they are first read (SupplyRecord).
CallInsertProperties(p, maxLen, from) ==
  /\ insPc[p] \in from
  /\ calls < MaxCalls
  /\ \E n \in 0..maxLen : StartInsert(p, n)
  /\ propertiesData' = [propertiesData EXCEPT ![p] = << >>]
  /\ UNCHANGED <<auxVars, store, genVars, orchVars>>

SupplyRecord(p, recs) ==
  /\ insPc[p] = "check"
  /\ insIdx[p] = Len(propertiesData[p]) + 1
  /\ \E propData \in recs :
       propertiesData' = [propertiesData EXCEPT ![p] = Append(@, propData)]
  /\ UNCHANGED <<store, insLen, insIdx, insertedCount, insPc, outcomes, storeBefore, calls>>
  /\ UNCHANGED <<genVars, orchVars, auxVars>>

\* What insertSingleProperty does with an error thrown inside its try block.
AfterErrorRaised(p) == "thrown"
AfterError(p) == NextPc(p)

\* One record ends without a write: it is logged and not counted.
SkipRecord(p, what) ==
  /\ outcomes' = [outcomes EXCEPT ![p] = Append(@, what)]
  /\ insertedCount' = [insertedCount EXCEPT ![p] = CountAfter(@, FALSE)]
  /\ insIdx' = [insIdx EXCEPT ![p] = @ + 1]
  /\ insPc' = [insPc EXCEPT ![p] = NextPc(p)]
  /\ UNCHANGED <<store, propertiesData, insLen, storeBefore, calls>>

\* insertSingleProperty up to the transaction: validation, then the lookup.
InsCheck(p) ==
  /\ insPc[p] = "check"
  /\ insIdx[p] <= Len(propertiesData[p])
  /\ UNCHANGED <<genVars, orchVars, auxVars>>
  /\ IF ~ValidatePropertyData(CurrentRecord(p))
     THEN SkipRecord(p, "invalid")
     ELSE IF FindUnique(store, CurrentRecord(p).zpid) # << >>
          THEN SkipRecord(p, "exists")
          ELSE /\ insPc' = [insPc EXCEPT ![p] = "tx"]
               /\ UNCHANGED <<store, propertiesData, insLen, insIdx, insertedCount,
                              outcomes, storeBefore, calls>>

\* insertSingleProperty's transaction and the rest of the loop iteration.
InsTransaction(p) ==
  /\ insPc[p] = "tx"
  /\ \E failAt \in 0..Len(Writes(CurrentRecord(p))) :
       LET r == Transaction(store, CurrentRecord(p), failAt)
       IN /\ store' = r.st
          /\ outcomes' = [outcomes EXCEPT ![p] = Append(@, IF r.ok THEN "inserted" ELSE "error")]
          /\ insertedCount' = [insertedCount EXCEPT ![p] = CountAfter(@, r.ok)]
          /\ insPc' = [insPc EXCEPT ![p] = IF r.ok THEN NextPc(p) ELSE AfterError(p)]
  /\ insIdx' = [insIdx EXCEPT ![p] = @ + 1]
  /\ UNCHANGED <<propertiesData, insLen, storeBefore, calls>>
  /\ UNCHANGED <<genVars, orchVars, auxVars>>

\* ------------------------------------------------------ generatePropertyBatch
Min(a, b) == IF a < b THEN a ELSE b
Max(a, b) == IF a > b THEN a ELSE b

JsSliceInclusiveEnd(s, start, end) ==
  LET len == Len(s)
      a == IF start < 0 THEN Max(len + start, 0) ELSE Min(start, len)
      e == IF end < 0 THEN Max(len + end, 0) ELSE Min(end + 1, len)
  IN IF a >= e THEN << >> ELSE [k \in 1..(e - a) |-> s[a + k]]

\* Array.prototype.slice(start, end) on a sequence (0-based arguments).
JsSlice(s, start, end) ==
  LET len == Len(s)
      a == IF start < 0 THEN Max(len + start, 0) ELSE Min(start, len)
      e == IF end < 0 THEN Max(len + end, 0) ELSE Min(end, len)
  IN IF a >= e THEN << >> ELSE [k \in 1..(e - a) |-> s[a + k]]

\* The requests a planner returns for n properties, each named by its position.
PlannedRequests(n) == [k \in 1..n |-> k]

\* What the completion endpoint can answer.  A "json" answer is a JSON object
\* with a properties array of the given items; "badshape" is JSON of another
\* shape; "unparseable" is not JSON; "empty" has no content; "throw" is a
\* rejected call (network or API error).
ApiGood(z) == IF z = 1 THEN FullRecord(1) ELSE BareRecord(z)
ApiMalformed == [BareRecord(2) EXCEPT !.missing = {"address"}]
ApiOutOfArea == [BareRecord(3) EXCEPT !.latitude = LatMax + 1]

ApiBodies ==
  { << >>,
    <<ApiGood(1), ApiOutOfArea>>,
    <<ApiGood(1), ApiGood(2), ApiGood(3)>>,
    <<ApiGood(4)>>,
    <<ApiGood(3), ApiMalformed>> }

ApiResponses ==
  {[kind |-> k, items |-> << >>] : k \in {"throw", "empty", "unparseable", "badshape"}}
  \cup {[kind |-> "json", items |-> b] : b \in ApiBodies}

\* GeneratedPropertySchema: the required fields are present and the fields
\* declared int() are integers.
SchemaOk(item) ==
  /\ item.missing = {}
  /\ IsInteger(item.bedrooms)
  /\ IsInteger(item.sqft)
  /\ IsInteger(item.price)

\* What the schema's parse returns for an accepted item: status gets its default.
SchemaParsed(item) ==
  [item EXCEPT !.status = IF @ = << >> THEN <<"For Sale">> ELSE @]

\* The value generatePropertyBatchInternal returns for a response that arrived:
\* the parsed properties when the content is JSON that passes
\* OpenAIPropertyResponseSchema (every item must pass), [] otherwise.
ParseResponseFiltering(resp) ==
  IF resp.kind = "json"
  THEN LET ok == SelectSeq(resp.items, SchemaOk)
       IN [i \in 1..Len(ok) |-> SchemaParsed(ok[i])]
  ELSE << >>
ParseResponse(resp) ==
  IF resp.kind = "json" /\ \A i \in 1..Len(resp.items) : SchemaOk(resp.items[i])
  THEN [i \in 1..Len(resp.items) |-> SchemaParsed(resp.items[i])]
  ELSE << >>

\* ------------------------------------------------- createPropertyRequests
\* Weights and draws are in hundredths: 0.7 is 70, and Math.random() * total is
\* a whole number of hundredths below the total.
PropertyTypes ==
  <<[type |-> "single_family", weight |-> 70], [type |-> "condo", weight |-> 20],
    [type |-> "townhouse", weight |-> 10]>>

BedroomDist ==
  <<[bedrooms |-> 2, weight |-> 20], [bedrooms |-> 3, weight |-> 40],
    [bedrooms |-> 4, weight |-> 30], [bedrooms |-> 5, weight |-> 10]>>

\* items.reduce((sum, item) => sum + item.weight, 0)
RECURSIVE TotalWeight(_)
TotalWeight(items) ==
  IF items = << >> THEN 0 ELSE Head(items).weight + TotalWeight(Tail(items))

\* What floating-point rounding may add to the running value of `random`, in
\* hundredths (an upper estimate: the true error is far below one hundredth).
Drifts == {-2, 0, 2}

\* if (random <= 0) return item
SelectedStrict(random) == random < 0
Selected(random) == random <= 0

\* The for-of loop of weightedRandom from item k on, and the fallback after it:
\* the position of the item returned, and whether the fallback returned it.
RECURSIVE Pick(_, _, _, _)
Pick(items, k, random, drift) ==
  IF k > Len(items) THEN [index |-> Len(items), fallback |-> TRUE]
  ELSE LET rest == random - items[k].weight + (IF k = 1 THEN drift ELSE 0)
       IN IF Selected(rest) THEN [index |-> k, fallback |-> FALSE]
          ELSE Pick(items, k + 1, rest, drift)

\* weightedRandom(items) when Math.random() * totalWeight is `draw`.
WeightedRandom(items, draw, drift) == Pick(items, 1, draw, drift)

\* Math.round(n / d) for d > 0: the nearest integer, halves going up.
MathRound(n, d) == (2 * n + d) \div (2 * d)

\* Math.round((bedrooms * (0.75 + Math.random() * 0.5)) * 2) / 2, in hundredths,
\* when Math.random() * 0.5 is f hundredths.
BathroomsUnrounded(bedrooms, f) == bedrooms * (75 + f)
Bathrooms(bedrooms, f) == MathRound(2 * bedrooms * (75 + f), 100) * 50

\* The switch on propType.
RangesDefault(propType) == [priceRange |-> <<1000000, 2000000>>, sqftRange |-> <<1200, 2800>>]
Ranges(propType) ==
  CASE propType = "single_family" -> [priceRange |-> <<1400000, 2500000>>, sqftRange |-> <<1800, 3500>>]
    [] propType = "condo" -> [priceRange |-> <<800000, 1200000>>, sqftRange |-> <<900, 1800>>]
    [] propType = "townhouse" -> [priceRange |-> <<1200000, 1800000>>, sqftRange |-> <<1400, 2400>>]
    [] OTHER -> [priceRange |-> <<1000000, 2000000>>, sqftRange |-> <<1200, 2800>>]

\* The values of Math.random() * totalWeight tried for the two distributions,
\* and of Math.random() * 0.5 for the bathrooms.
TypeDraws == {0, 70, 71, 99}
BedroomDraws == {0, 20, 21, 90, 91, 99}
Factors == {0, 25, 49}

\* The numbers of requests createPropertyRequests is asked for.
PlanSizes == {0, 1, 2}

\* The request the loop body builds from its three draws.
RequestFor(typeDraw, typeDrift, bedDraw, bedDrift, f) ==
  LET propType == PropertyTypes[WeightedRandom(PropertyTypes, typeDraw, typeDrift).index].type
      bedrooms == BedroomDist[WeightedRandom(BedroomDist, bedDraw, bedDrift).index].bedrooms
  IN [propertyType |-> propType, priceRange |-> Ranges(propType).priceRange,
      bedrooms |-> bedrooms, bathrooms |-> Bathrooms(bedrooms, f),
      sqftRange |-> Ranges(propType).sqftRange, yearBuiltRange |-> <<1920, 2020>>]

\* One iteration of the for loop of createPropertyRequests.
CreateRequest ==
  /\ planI < planTotal
  /\ \E typeDraw \in TypeDraws, typeDrift \in Drifts, bedDraw \in BedroomDraws,
        bedDrift \in Drifts, f \in Factors :
       /\ planRequests' = Append(planRequests,
                                 RequestFor(typeDraw, typeDrift, bedDraw, bedDrift, f))
       /\ planDraw' = <<[typeDraw |-> typeDraw, typeDrift |-> typeDrift,
                         bedDraw |-> bedDraw, bedDrift |-> bedDrift, factor |-> f]>>
  /\ planI' = planI + 1
  /\ UNCHANGED <<responseContent, parsedData, planTotal, currentYear>>
  /\ UNCHANGED <<store, insVars, genVars, orchVars, rateVars, mainVars, exported>>

\* ------------------------------------------------- the response's content
\* A text is a sequence of tokens: the fence (three backquotes), the word json, a blank, a line
\* break, and the tokens of JSON texts made of arrays and the number 1.
IsSpace(tok) == tok \in {" ", "\n"}

RECURSIVE TrimStart(_)
TrimStart(text) ==
  IF text # << >> /\ IsSpace(Head(text)) THEN TrimStart(Tail(text)) ELSE text

RECURSIVE TrimEnd(_)
TrimEnd(text) ==
  IF text # << >> /\ IsSpace(text[Len(text)])
  THEN TrimEnd(SubSeq(text, 1, Len(text) - 1))
  ELSE text

\* String.prototype.trim()
Trim(text) == TrimEnd(TrimStart(text))

\* String.prototype.startsWith(prefix)
StartsWith(text, prefix) ==
  Len(text) >= Len(prefix) /\ SubSeq(text, 1, Len(prefix)) = prefix

\* text.replace(/^prefix\s*/, '')
ReplaceLeading(text, prefix) ==
  IF StartsWith(text, prefix)
  THEN TrimStart(SubSeq(text, Len(prefix) + 1, Len(text)))
  ELSE text

\* text.replace(/\s*fence$/, '')
ReplaceTrailingFence(text) ==
  IF text # << >> /\ text[Len(text)] = "fence"
  THEN TrimEnd(SubSeq(text, 1, Len(text) - 1))
  ELSE text

\* "Strip markdown code fences if present"
StripFencesJsonOnly(text) ==
  LET jsonContent == Trim(text)
  IN IF StartsWith(jsonContent, <<"fence", "json">>)
     THEN ReplaceTrailingFence(ReplaceLeading(jsonContent, <<"fence", "json">>))
     ELSE jsonContent
StripFences(text) ==
  LET jsonContent == Trim(text)
  IN IF StartsWith(jsonContent, <<"fence", "json">>)
     THEN ReplaceTrailingFence(ReplaceLeading(jsonContent, <<"fence", "json">>))
     ELSE IF StartsWith(jsonContent, <<"fence">>)
          THEN ReplaceTrailingFence(ReplaceLeading(jsonContent, <<"fence">>))
          ELSE jsonContent

\* JSON.parse on such a text: the value read from the start of the tokens, and
\* the tokens left after it.
RECURSIVE ParseValue(_)
RECURSIVE ParseElements(_, _)
ParseValue(toks) ==
  IF toks = << >> THEN [ok |-> FALSE, rest |-> << >>]
  ELSE IF Head(toks) = "1" THEN [ok |-> TRUE, rest |-> Tail(toks)]
  ELSE IF Head(toks) = "[" THEN ParseElements(Tail(toks), TRUE)
  ELSE [ok |-> FALSE, rest |-> toks]

ParseElements(toks, first) ==
  IF toks = << >> THEN [ok |-> FALSE, rest |-> << >>]
  ELSE IF first /\ Head(toks) = "]" THEN [ok |-> TRUE, rest |-> Tail(toks)]
  ELSE LET v == ParseValue(toks)
       IN IF ~v.ok \/ v.rest = << >> THEN [ok |-> FALSE, rest |-> v.rest]
          ELSE IF Head(v.rest) = "]" THEN [ok |-> TRUE, rest |-> Tail(v.rest)]
          ELSE IF Head(v.rest) = "," THEN ParseElements(Tail(v.rest), FALSE)
          ELSE [ok |-> FALSE, rest |-> v.rest]

\* JSON.parse(text): the value (written without white space), or the error.
JsonParse(text) ==
  LET toks == SelectSeq(text, LAMBDA tok : ~IsSpace(tok))
      v == ParseValue(toks)
  IN IF v.ok /\ v.rest = << >> THEN toks ELSE <<"SyntaxError">>

\* The JSON texts a response may carry.
JsonTexts ==
  { <<"1">>, <<"[", "]">>, <<"[", "1", "]">>, <<"[", "1", ",", "1", "]">>,
    <<"[", "[", "]", "]">>, <<"[", " ", "1", "\n", "]">> }

Blanks == {<< >>, <<"\n">>, <<" ", "\n">>}

\* A JSON text in a fence with the given tag (<<"json">>, or << >> for none),
\* with white space after the opening, before the closing, and around the whole.
Fenced(tag, json, afterOpen, beforeClose, before, after) ==
  before \o <<"fence">> \o tag \o afterOpen \o json \o beforeClose \o <<"fence">> \o after

\* A JSON text with no fence.
Unfenced(json, before, after) == before \o json \o after

\* Contents that are none of these.
OtherContents ==
  { << >>, <<"1", "fence">>, <<"[", "]", "\n", "fence">>, <<"fence", "json">>, <<"fence", "1">>,
    <<"json", "1">>, <<"[", "1">>, <<" ">> }

Contents ==
  {Fenced(tag, j, a, b, l, r) : tag \in {<<"json">>, << >>}, j \in JsonTexts,
                                a \in Blanks, b \in Blanks, l \in Blanks, r \in Blanks}
  \cup {Unfenced(j, l, r) : j \in JsonTexts, l \in Blanks, r \in Blanks}
  \cup OtherContents

\* generatePropertyBatchInternal from the content to JSON.parse.
ParseContent ==
  /\ parsedData = << >>
  /\ parsedData' = <<IF responseContent = << >> THEN <<"Error: No content">>
                     ELSE JsonParse(StripFences(responseContent))>>
  /\ UNCHANGED <<responseContent, planTotal, planI, planRequests, planDraw, currentYear>>
  /\ UNCHANGED <<store, insVars, genVars, orchVars, rateVars, mainVars, exported>>

NextIndexOverlapping(i, size) == i + size - 1
NextIndex(i, size) == i + size

\* The for loop's test: another slice, or the return.
LoopPc(i, reqs) == IF i < Len(reqs) THEN "rate" ELSE "returned"

\* The loop index after the catch block's `continue`: the for loop's update runs.
IndexAfterSliceErrorRetry(i, size) == i
IndexAfterSliceError(i, size) == NextIndex(i, size)

\* Where the loop goes from the catch block of a slice.
AfterSliceErrorStop(i, size, reqs) == "returned"
AfterSliceError(i, size, reqs) == LoopPc(NextIndex(i, size), reqs)

Batch == JsSlice(genRequests, genI, genI + genBatchSize)

\* A caller starts generatePropertyBatch(requests, batchSize).
StartGenerate(reqs, size) ==
  /\ genRequests' = reqs
  /\ genBatchSize' = size
  /\ genI' = 0
  /\ genResults' = << >>
  /\ genCalls' = << >>
  /\ genPauses' = 0
  /\ genPc' = LoopPc(0, reqs)

CallGeneratePropertyBatch ==
  /\ genPc = "idle"
  /\ \E n \in 0..MaxRequests, b \in 1..MaxBatchSize : StartGenerate(PlannedRequests(n), b)

\* await this.enforceRateLimit(): the flow is held back, then goes on.
GenEnforceRateLimit ==
  /\ genPc = "rate"
  /\ genPc' = "call"
  /\ UNCHANGED <<genRequests, genBatchSize, genI, genResults, genCalls, genPauses>>

\* generatePropertyBatchInternal for the current slice, and what the loop body
\* does with its result or its error.
\* The log of calls is complete for a loop that advances (it makes at most one
\* call per request); of a loop that does not advance it keeps the first calls.
GenApiCallFrom(responses) ==
  /\ genPc = "call"
  /\ \E resp \in responses :
       /\ genCalls' = IF Len(genCalls) < Len(genRequests)
                      THEN Append(genCalls, [slice |-> Batch, response |-> resp])
                      ELSE genCalls
       /\ IF resp.kind = "throw"
          THEN /\ genPc' = AfterSliceError(genI, genBatchSize, genRequests)
               /\ genI' = IndexAfterSliceError(genI, genBatchSize)
               /\ UNCHANGED genResults
          ELSE /\ genResults' = genResults \o ParseResponse(resp)
               /\ genPc' = "pause"
               /\ UNCHANGED genI
  /\ UNCHANGED <<genRequests, genBatchSize, genPauses>>

GenApiCall == GenApiCallFrom(ApiResponses)

\* The 1-second pause that ends a loop iteration, then i += batchSize.
GenPause ==
  /\ genPc = "pause"
  /\ genPauses' = IF genPauses < Len(genRequests) THEN genPauses + 1 ELSE genPauses
  /\ genI' = NextIndex(genI, genBatchSize)
  /\ genPc' = LoopPc(NextIndex(genI, genBatchSize), genRequests)
  /\ UNCHANGED <<genRequests, genBatchSize, genResults, genCalls>>

\* ---------------------------------------------------------- enforceRateLimit
\* Times are whole milliseconds, as Date.now() returns them.
\* The ceilings a generator is configured with.
Rpms == {1, 2, 3, 7}

\* The time that passes between the return of one enforceRateLimit call and the
\* entry of the next (the completion call, and the pause unless the slice
\* failed), or between construction and the first call.
Gaps == {0, 1000, 20000, 59000}

\* How late a timer may fire.
Jitters == {0, 3}

\* this.requestCount >= maxRequestsPerMinute
AtCeilingStrict(count, max) == count > max
AtCeiling(count, max) == count >= max

\* timeSinceLastRequest < minDelay, with minDelay = 60000 / max.
NeedsSpacingNever(timeSince, max) == FALSE
NeedsSpacing(timeSince, max) == timeSince * max < Minute

\* The least advance of Date.now() over a timer of minDelay - timeSinceLastRequest
\* milliseconds: the whole milliseconds of the delay.
SpacingDelay(timeSince, max) == (Minute - timeSince * max) \div max

\* this.requestCount++; this.lastRequestTime = Date.now(), at time t.
Grant(t, count) ==
  /\ requestCount' = count + 1
  /\ lastRequestTime' = t
  /\ permits' = Append(permits, t)
  /\ ratePc' = "out"

\* The minimum-delay part, reached at time t with `now` read at entry.
Spacing(t, count, now) ==
  /\ clock' = t
  /\ IF NeedsSpacing(now - lastRequestTime, maxRequestsPerMinute)
     THEN /\ ratePc' = "spacingWait"
          /\ rateWake' = t + SpacingDelay(now - lastRequestTime, maxRequestsPerMinute)
          /\ requestCount' = count
          /\ UNCHANGED <<lastRequestTime, permits>>
     ELSE /\ Grant(t, count)
          /\ UNCHANGED rateWake

\* enforceRateLimit is entered: the window test, the ceiling test, and the
\* spacing test when the ceiling is not reached.
RateEnter ==
  /\ ratePc = "out"
  /\ Len(permits) < MaxPermits
  /\ \E gap \in Gaps :
       LET now == clock + gap
           windowOver == now >= resetTime
           count == IF windowOver THEN 0 ELSE requestCount
           reset == IF windowOver THEN now + Minute ELSE resetTime
       IN /\ rateNow' = now
          /\ resetTime' = reset
          /\ IF AtCeiling(count, maxRequestsPerMinute)
             THEN /\ ratePc' = "limitWait"
                  /\ rateWake' = now + (reset - now)
                  /\ requestCount' = count
                  /\ clock' = now
                  /\ UNCHANGED <<lastRequestTime, permits>>
             ELSE Spacing(now, count, now)
  /\ UNCHANGED <<maxRequestsPerMinute, store, insVars, genVars, orchVars, mainVars, exported, pureVars>>

\* The rate-limit timer fires: the counter and the window are reset, then the
\* spacing test with the `now` read at entry.
RateLimitWake ==
  /\ ratePc = "limitWait"
  /\ \E late \in Jitters :
       /\ resetTime' = rateWake + late + Minute
       /\ Spacing(rateWake + late, 0, rateNow)
  /\ UNCHANGED <<rateNow, maxRequestsPerMinute, store, insVars, genVars, orchVars, mainVars,
                 exported, pureVars>>

\* The spacing timer fires: the permit.
RateSpacingWake ==
  /\ ratePc = "spacingWait"
  /\ \E late \in Jitters :
       /\ clock' = rateWake + late
       /\ Grant(rateWake + late, requestCount)
  /\ UNCHANGED <<resetTime, rateNow, rateWake, maxRequestsPerMinute, store, insVars, genVars,
                 orchVars, mainVars, exported, pureVars>>

GenIdle ==
  /\ genRequests = << >>
  /\ genBatchSize = 1
  /\ genI = 0
  /\ genResults = << >>
  /\ genPc = "idle"
  /\ genCalls = << >>
  /\ genPauses = 0

InsIdle ==
  /\ propertiesData = [p \in Procs |-> << >>]
  /\ insLen = [p \in Procs |-> 0]
  /\ insIdx = [p \in Procs |-> 1]
  /\ insertedCount = [p \in Procs |-> 0]
  /\ insPc = [p \in Procs |-> "idle"]
  /\ outcomes = [p \in Procs |-> << >>]
  /\ storeBefore = [p \in Procs |-> EmptyStore]
  /\ calls = 0

\* ------------------------------------------------------------ orchestrator
ChunkSize == 50

\* Math.ceil(n / d) for n >= 0, d >= 1.
CeilFloor(n, d) == n \div d
Ceil(n, d) == (n + d - 1) \div d

\* The (n, b) a run is started with: --properties and --batch-size.
RunConfigs ==
  {[n |-> 0, b |-> 2], [n |-> 3, b |-> 3], [n |-> 5, b |-> 2], [n |-> 51, b |-> 50]}

\* The store a run may find: empty, or holding a record of an earlier run.
PreloadedStore == Transaction(EmptyStore, BareRecord(1), 0).st

\* What prompt() can return: null (no input), or the line typed.
PromptAnswers == {<< >>, <<"y">>, <<"Y">>, <<"n">>, <<"">>}

ToLowerCaseOff(str) == str
ToLowerCase(str) == IF str = "Y" THEN "y" ELSE str

ConfirmedCaseSensitive(answer) == answer # << >> /\ answer[1] = "y"
\* response?.toLowerCase() === 'y'
Confirmed(answer) == answer # << >> /\ ToLowerCase(answer[1]) = "y"

NewProgress(n) ==
  [totalRequested |-> n, totalGenerated |-> 0, totalInserted |-> 0, currentChunk |-> 0,
   totalChunks |-> 0, failedBatches |-> << >>]

\* The decimal digits of a natural number, most significant first.
RECURSIVE Digits(_)
Digits(k) == IF k < 10 THEN <<k>> ELSE Digits(k \div 10) \o <<k % 10>>

\* String.prototype.padStart(len, '0') on a digit string.
RECURSIVE PadStart(_, _)
PadStart(ds, len) == IF Len(ds) >= len THEN ds ELSE PadStart(<<0>> \o ds, len)

\* data/raw_generated/chunk_NNN.json
RawFileNameUnpadded(k) == <<"data/raw_generated/chunk_", Digits(k), ".json">>
RawFileName(k) == <<"data/raw_generated/chunk_", PadStart(Digits(k), 3), ".json">>

\* Bun.write(name, content): the file is created or replaced.
WriteFile(files, name, content) ==
  IF \E i \in 1..Len(files) : files[i].name = name
  THEN [i \in 1..Len(files) |->
          IF files[i].name = name THEN [name |-> name, content |-> content] ELSE files[i]]
  ELSE Append(files, [name |-> name, content |-> content])

\* endIdx = Math.min(startIdx + chunkSize, requests.length)
ChunkEndWhole(k, len) == len
ChunkEnd(k, len) == Min(k * ChunkSize + ChunkSize, len)

\* The head of the chunk loop for chunk k: its slice of the requests goes to
\* generatePropertyBatch, or the loop ends and the summary follows.
GoToChunk(k, prog, reqs) ==
  /\ chunkIdx' = k
  /\ IF k < prog.totalChunks
     THEN /\ progress' = [prog EXCEPT !.currentChunk = k + 1]
          /\ orchPc' = "generating"
          /\ StartGenerate(JsSlice(reqs, k * ChunkSize, ChunkEnd(k, Len(reqs))), batchSize)
     ELSE /\ progress' = prog
          /\ orchPc' = "summarizing"
          /\ UNCHANGED genVars

\* createPropertyRequests, totalChunks, and the entry into the chunk loop.
Plan ==
  LET reqs == PlannedRequests(totalProperties)
  IN /\ requests' = reqs
     /\ GoToChunk(0, [progress EXCEPT !.totalChunks = Ceil(Len(reqs), ChunkSize)], reqs)

\* await this.inserter.getPropertyCount(), and what follows when the store is empty.
OrchGetPropertyCount ==
  /\ orchPc = "start"
  /\ \E ok \in BOOLEAN :
       IF ~ok
       THEN /\ orchPc' = "thrown"
            /\ UNCHANGED <<requests, chunkIdx, progress, genVars>>
       ELSE IF Len(store.properties) > 0
            THEN /\ orchPc' = "prompt"
                 /\ UNCHANGED <<requests, chunkIdx, progress, genVars>>
            ELSE Plan
  /\ UNCHANGED <<auxVars, store, insVars, totalProperties, batchSize, orchData, rawFiles,
                 promptAnswer, summary>>

\* The confirmation prompt on a store that is not empty.
OrchPrompt ==
  /\ orchPc = "prompt"
  /\ \E answer \in PromptAnswers :
       /\ promptAnswer' = answer
       /\ IF Confirmed(answer)
          THEN Plan
          ELSE /\ orchPc' = "aborted"
               /\ UNCHANGED <<requests, chunkIdx, progress, genVars>>
  /\ UNCHANGED <<auxVars, store, insVars, totalProperties, batchSize, orchData, rawFiles, summary>>

\* if (propertiesData.length === 0): warn and continue.
NoDataGeneratedNever(data) == FALSE
NoDataGenerated(data) == Len(data) = 0

\* generatePropertyBatch has returned: an empty result skips the chunk.
OrchAfterGenerate ==
  /\ orchPc = "generating"
  /\ genPc = "returned"
  /\ IF NoDataGenerated(genResults)
     THEN /\ GoToChunk(chunkIdx + 1, progress, requests)
          /\ UNCHANGED orchData
     ELSE /\ orchData' = genResults
          /\ progress' = [progress EXCEPT !.totalGenerated = @ + Len(genResults)]
          /\ orchPc' = "saving"
          /\ UNCHANGED <<chunkIdx, genVars>>
  /\ UNCHANGED <<auxVars, store, insVars, totalProperties, batchSize, requests, rawFiles,
                 promptAnswer, summary>>

\* Where the chunk goes after saveRawData: its catch block only warns, so the
\* loop body goes on to insertProperties whether the write succeeded or not.
AfterSaveRawDataThrows(ok) == IF ok THEN "inserting" ELSE "delay"
AfterSaveRawData(ok) == "inserting"

\* saveRawData (a failed write is only logged), then the call of insertProperties.
OrchSaveRawData ==
  /\ orchPc = "saving"
  /\ \E ok \in BOOLEAN :
       /\ rawFiles' = IF ok THEN WriteFile(rawFiles, RawFileName(chunkIdx), orchData)
                      ELSE rawFiles
       /\ orchPc' = AfterSaveRawData(ok)
  /\ StartInsert(1, Len(orchData))
  /\ propertiesData' = [propertiesData EXCEPT ![1] = orchData]
  /\ UNCHANGED <<auxVars, store, genVars, totalProperties, batchSize, requests, chunkIdx, progress,
                 orchData, promptAnswer, summary>>

\* insertProperties has returned: the counter, the two log lines.
OrchAfterInsert ==
  /\ orchPc = "inserting"
  /\ insPc[1] = "returned"
  /\ progress' = [progress EXCEPT !.totalInserted = @ + insertedCount[1]]
  /\ orchPc' = "delay"
  /\ UNCHANGED <<auxVars, store, insVars, genVars, totalProperties, batchSize, requests, chunkIdx,
                 orchData, rawFiles, promptAnswer, summary>>

\* The 2-second delay that ends a chunk, then chunkIdx++.
OrchDelay ==
  /\ orchPc = "delay"
  /\ GoToChunk(chunkIdx + 1, progress, requests)
  /\ UNCHANGED <<auxVars, store, insVars, totalProperties, batchSize, requests, orchData, rawFiles,
                 promptAnswer, summary>>

\* ((totalInserted / totalRequested) * 100).toFixed(1), in tenths of a percent;
\* << >> is NaN, what 0 / 0 gives.
SuccessRateTruncated(inserted, requested) ==
  IF requested = 0 THEN << >> ELSE <<(1000 * inserted) \div requested>>
SuccessRate(inserted, requested) ==
  IF requested = 0 THEN << >> ELSE <<MathRound(1000 * inserted, requested)>>

\* elapsedTime and printFinalSummary.
OrchSummarize ==
  /\ orchPc = "summarizing"
  /\ summary' = <<[requested |-> progress.totalRequested,
                   generated |-> progress.totalGenerated,
                   inserted |-> progress.totalInserted,
                   successRate |-> SuccessRate(progress.totalInserted,
                                               progress.totalRequested),
                   failedChunks |-> progress.failedBatches]>>
  /\ orchPc' = "sample"
  /\ UNCHANGED <<auxVars, store, insVars, genVars, totalProperties, batchSize, requests, chunkIdx,
                 progress, orchData, rawFiles, promptAnswer>>

\* await this.showSampleData(): the query may fail.
OrchShowSampleData ==
  /\ orchPc = "sample"
  /\ \E ok \in BOOLEAN : orchPc' = IF ok THEN "disconnect" ELSE "thrown"
  /\ UNCHANGED <<auxVars, store, insVars, genVars, totalProperties, batchSize, requests, chunkIdx,
                 progress, orchData, rawFiles, promptAnswer, summary>>

\* await this.inserter.disconnect(), then the return.
OrchDisconnect ==
  /\ orchPc = "disconnect"
  /\ \E ok \in BOOLEAN : orchPc' = IF ok THEN "returned" ELSE "thrown"
  /\ UNCHANGED <<auxVars, store, insVars, genVars, totalProperties, batchSize, requests, chunkIdx,
                 progress, orchData, rawFiles, promptAnswer, summary>>

\* --------------------------------------------------------------------- main
\* The (n, b) main() is started with.
MainConfigs == {[n |-> 0, b |-> 2], [n |-> 4, b |-> 2]}

\* process.env.OPENAI_API_KEY: undefined, or a string.
Credentials == {<< >>, <<"">>, <<"sk-key">>}

\* !process.env.OPENAI_API_KEY is false.
HasApiKeyAlways(env) == TRUE
HasApiKey(env) == env # << >> /\ env[1] # ""

\* options.validateOnly ? validateGeneration : generateAllData, validateGeneration
ModeAlwaysGenerate(only) == "generate"
Mode(only) == IF only THEN "validate" ELSE "generate"

\* generateAllData has settled: a rejection goes to main's catch.
AfterGenerateAllDataSwallow(pc) == "validate"
AfterGenerateAllData(pc) == IF pc = "thrown" THEN "caught" ELSE "validate"

\* new DataGenerationOrchestrator(n, b) inside main's try.
MainConstruct ==
  /\ mainPc = "start"
  /\ IF ~HasApiKey(credential)
     THEN /\ mainPc' = "caught"
          /\ UNCHANGED <<orchPc, totalProperties, batchSize, progress>>
     ELSE /\ \E cfg \in MainConfigs :
               /\ totalProperties' = cfg.n
               /\ batchSize' = cfg.b
               /\ progress' = NewProgress(cfg.n)
          /\ mainPc' = Mode(validateOnly)
          /\ orchPc' = IF Mode(validateOnly) = "generate" THEN "start" ELSE orchPc
  /\ UNCHANGED <<store, insVars, genVars, rateVars, exported, pureVars, credential, validateOnly, exitCode,
                 requests, chunkIdx, orchData, rawFiles, promptAnswer, summary>>

\* await orchestrator.generateAllData() has settled.
MainAfterGenerate ==
  /\ mainPc = "generate"
  /\ orchPc \in {"returned", "aborted", "thrown"}
  /\ mainPc' = AfterGenerateAllData(orchPc)
  /\ UNCHANGED <<store, insVars, genVars, orchVars, rateVars, exported, pureVars, credential, validateOnly,
                 exitCode>>

\* validateGeneration: the count; an empty store is reported invalid and the
\* method returns.
MainValidateCount ==
  /\ mainPc = "validate"
  /\ \E ok \in BOOLEAN :
       mainPc' = IF ~ok THEN "caught"
                 ELSE IF Len(store.properties) = 0 THEN "done" ELSE "validateSample"
  /\ UNCHANGED <<store, insVars, genVars, orchVars, rateVars, exported, pureVars, credential, validateOnly,
                 exitCode>>

\* validateGeneration: getSampleProperties(20) and the report.
MainValidateSample ==
  /\ mainPc = "validateSample"
  /\ \E ok \in BOOLEAN : mainPc' = IF ok THEN "validateDisconnect" ELSE "caught"
  /\ UNCHANGED <<store, insVars, genVars, orchVars, rateVars, exported, pureVars, credential, validateOnly,
                 exitCode>>

\* validateGeneration: await this.inserter.disconnect().
MainValidateDisconnect ==
  /\ mainPc = "validateDisconnect"
  /\ \E ok \in BOOLEAN : mainPc' = IF ok THEN "done" ELSE "caught"
  /\ UNCHANGED <<store, insVars, genVars, orchVars, rateVars, exported, pureVars, credential, validateOnly,
                 exitCode>>

\* catch (error) { console.error; process.exit(1) }
MainCatch ==
  /\ mainPc = "caught"
  /\ exitCode' = <<1>>
  /\ mainPc' = "exited"
  /\ UNCHANGED <<store, insVars, genVars, orchVars, rateVars, exported, pureVars, credential, validateOnly>>

\* main() returns and the process ends with the default exit code.
MainReturn ==
  /\ mainPc = "done"
  /\ exitCode' = <<0>>
  /\ mainPc' = "exited"
  /\ UNCHANGED <<store, insVars, genVars, orchVars, rateVars, exported, pureVars, credential, validateOnly>>

\* ----------------------------------------------------------------- exporter
\* Generated records with values the `||` defaults meet, and with photos whose
\* sortOrder is not their position.
Photo(order) == [caption |-> <<"Kitchen">>, isPrimary |-> <<FALSE>>, sortOrder |-> <<order>>]

RoundTripRecords ==
  UNION {{ [BareRecord(z) EXCEPT !.status = <<"For Sale">>],
           [FullRecord(z) EXCEPT !.status = <<"Pending">>,
                                 !.features = <<[fireplace |-> <<TRUE>>,
                                                 walkabilityScore |-> <<75>>]>>],
           [FullRecord(z) EXCEPT !.status = <<"">>],
           [FullRecord(z) EXCEPT !.status = <<"For Sale">>,
                                 !.features = <<[fireplace |-> <<FALSE>>,
                                                 walkabilityScore |-> <<0>>]>>],
           [FullRecord(z) EXCEPT !.status = <<"For Sale">>,
                                 !.photos = <<Photo(1), Photo(0)>>] } : z \in Zpids}

\* The rows of a table that belong to the property with the given id.
Related(table, id) == SelectSeq(table, LAMBDA r : r.propertyId = id)

\* photos: { orderBy: { sortOrder: 'asc' } }: the orders the query may return.
PhotoOrders(rows) ==
  IF rows = << >> THEN {<< >>}
  ELSE {[i \in 1..Len(rows) |-> rows[f[i]]] :
          f \in {g \in Permutations(1..Len(rows)) :
                   \A i, j \in 1..Len(rows) :
                     i < j => rows[g[i]].sortOrder <= rows[g[j]].sortOrder}}

\* The export of one property: what properties.map builds from a row and its
\* included rows, for each order the photos may come in.
ExportedProperty(st, row) ==
  LET listing == Related(st.listings, row.id)
      features == Related(st.features, row.id)
  IN {[zpid |-> row.zpid, address |-> row.address, zipCode |-> row.zipCode,
       latitude |-> row.latitude, longitude |-> row.longitude,
       bedrooms |-> row.bedrooms, bathrooms |-> row.bathrooms, sqft |-> row.sqft,
       yearBuilt |-> row.yearBuilt, propertyType |-> row.propertyType,
       price |-> row.price, status |-> row.status,
       listing |-> IF listing = << >> THEN << >>
                   ELSE <<[listDate |-> listing[1].listDate]>>,
       features |-> IF features = << >> THEN << >>
                    ELSE <<[fireplace |-> features[1].fireplace,
                            walkabilityScore |-> features[1].walkabilityScore]>>,
       photos |-> [i \in 1..Len(photos) |->
                     [caption |-> photos[i].caption, isPrimary |-> photos[i].isPrimary,
                      sortOrder |-> photos[i].sortOrder]]] :
        photos \in PhotoOrders(Related(st.photos, row.id))}

\* The exports findMany and map may produce for the first k properties.
RECURSIVE ExportsOf(_, _)
ExportsOf(st, k) ==
  IF k = 0 THEN {<< >>}
  ELSE {Append(e, x) : e \in ExportsOf(st, k - 1), x \in ExportedProperty(st, st.properties[k])}

\* exportAllData on the committed store: nothing when the store is empty.
ExportAllData ==
  /\ insPc[1] \in {"idle", "returned"}
  /\ Len(store.properties) > 0
  /\ exported' \in ExportsOf(store, Len(store.properties))
  /\ UNCHANGED <<store, insVars, genVars, orchVars, rateVars, mainVars, pureVars>>

OrchIdle ==
  /\ orchPc = "none"
  /\ totalProperties = 0
  /\ batchSize = 1
  /\ requests = << >>
  /\ chunkIdx = 0
  /\ progress = NewProgress(0)
  /\ orchData = << >>
  /\ rawFiles = << >>
  /\ promptAnswer = << >>
  /\ summary = << >>

\* The limiter of a generator constructed at StartTime with the default config.
RateIdle ==
  /\ clock = StartTime
  /\ lastRequestTime = 0
  /\ requestCount = 0
  /\ resetTime = StartTime + Minute
  /\ maxRequestsPerMinute = DefaultRpm
  /\ ratePc = "out"
  /\ rateNow = 0
  /\ rateWake = 0
  /\ permits = << >>

MainIdle ==
  /\ mainPc = "none"
  /\ credential = <<"sk-key">>
  /\ validateOnly = FALSE
  /\ exitCode = << >>

\* No response content, no plan, and the year the validation bound was written in.
PureIdle ==
  /\ responseContent = << >>
  /\ parsedData = << >>
  /\ planTotal = 0
  /\ planI = 0
  /\ planRequests = << >>
  /\ planDraw = << >>
  /\ currentYear = YearMax

AuxIdle ==
  /\ RateIdle
  /\ MainIdle
  /\ PureIdle
  /\ exported = << >>

InsInit ==
  /\ store = EmptyStore
  /\ InsIdle
  /\ GenIdle
  /\ OrchIdle
  /\ AuxIdle

\* One inserter, called again and again.
InsertNext ==
  \/ CallInsertProperties(1, MaxBatch, {"idle", "returned"})
  \/ SupplyRecord(1, Records)
  \/ InsCheck(1)
  \/ InsTransaction(1)

SpecInsert == InsInit /\ [][InsertNext]_vars

\* Two inserters (two processes of the pipeline) on the same store, each making
\* one call, their steps interleaved.
RaceNext ==
  \E p \in Procs :
    \/ CallInsertProperties(p, MaxRaceBatch, {"idle"})
    \/ SupplyRecord(p, GoodRecords)
    \/ InsCheck(p)
    \/ InsTransaction(p)

SpecRace == InsInit /\ [][RaceNext]_vars

\* generatePropertyBatch called once on n requests with batch size b.
GenerateNext ==
  \/ CallGeneratePropertyBatch /\ UNCHANGED <<store, insVars, orchVars, auxVars>>
  \/ GenEnforceRateLimit /\ UNCHANGED <<store, insVars, orchVars, auxVars>>
  \/ GenApiCall /\ UNCHANGED <<store, insVars, orchVars, auxVars>>
  \/ GenPause /\ UNCHANGED <<store, insVars, orchVars, auxVars>>

SpecGenerate == InsInit /\ [][GenerateNext]_vars

\* The batch sizes parseInt can hand over from --batch-size that do not make the
\* loop index negative: the option is not validated, so 0 is among them.
CliBatchSizes == 0..MaxBatchSize

\* The answers that add no record to the results: rejections, unusable content,
\* an empty properties array, a response that fails the schema.
NoRecordResponses == {resp \in ApiResponses : ParseResponse(resp) = << >>}

CallGeneratePropertyBatchCli ==
  /\ genPc = "idle"
  /\ \E n \in 0..MaxRequests, b \in CliBatchSizes : StartGenerate(PlannedRequests(n), b)

\* generatePropertyBatch called once with a batch size from the command line,
\* the endpoint answering every call, without a usable record.
BatchSizeNext ==
  \/ CallGeneratePropertyBatchCli /\ UNCHANGED <<store, insVars, orchVars, auxVars>>
  \/ GenEnforceRateLimit /\ UNCHANGED <<store, insVars, orchVars, auxVars>>
  \/ GenApiCallFrom(NoRecordResponses) /\ UNCHANGED <<store, insVars, orchVars, auxVars>>
  \/ GenPause /\ UNCHANGED <<store, insVars, orchVars, auxVars>>

\* Every awaited call and timer returns.
SpecBatchSize == InsInit /\ [][BatchSizeNext]_vars /\ WF_vars(BatchSizeNext)

\* insertProperties([r]) on an empty store, for a record r around the bounds of
\* validatePropertyData, in some year.
ValidateInit ==
  /\ store = EmptyStore
  /\ GenIdle
  /\ OrchIdle
  /\ RateIdle
  /\ MainIdle
  /\ exported = << >>
  /\ responseContent = << >>
  /\ parsedData = << >>
  /\ planTotal = 0
  /\ planI = 0
  /\ planRequests = << >>
  /\ planDraw = << >>
  /\ currentYear \in RunYears
  /\ \E r \in ValidationRecords : propertiesData = [p \in Procs |-> IF p = 1 THEN <<r>> ELSE << >>]
  /\ insLen = [p \in Procs |-> IF p = 1 THEN 1 ELSE 0]
  /\ insIdx = [p \in Procs |-> 1]
  /\ insertedCount = [p \in Procs |-> 0]
  /\ insPc = [p \in Procs |-> IF p = 1 THEN "check" ELSE "idle"]
  /\ outcomes = [p \in Procs |-> << >>]
  /\ storeBefore = [p \in Procs |-> EmptyStore]
  /\ calls = 1

ValidateNext ==
  \/ InsCheck(1)
  \/ InsTransaction(1)

SpecValidate == ValidateInit /\ [][ValidateNext]_vars

\* createPropertyRequests(n) from its first statement to its return.
PlanInit ==
  /\ store = EmptyStore
  /\ InsIdle
  /\ GenIdle
  /\ OrchIdle
  /\ RateIdle
  /\ MainIdle
  /\ exported = << >>
  /\ responseContent = << >>
  /\ parsedData = << >>
  /\ planTotal \in PlanSizes
  /\ planI = 0
  /\ planRequests = << >>
  /\ planDraw = << >>
  /\ currentYear = YearMax

SpecPlan == PlanInit /\ [][CreateRequest]_vars

\* One response content, stripped of its fences and parsed.
FenceInit ==
  /\ store = EmptyStore
  /\ InsIdle
  /\ GenIdle
  /\ OrchIdle
  /\ RateIdle
  /\ MainIdle
  /\ exported = << >>
  /\ responseContent \in Contents
  /\ parsedData = << >>
  /\ planTotal = 0
  /\ planI = 0
  /\ planRequests = << >>
  /\ planDraw = << >>
  /\ currentYear = YearMax

SpecFence == FenceInit /\ [][ParseContent]_vars

\* One generator, constructed at StartTime with a configured ceiling, whose
\* enforceRateLimit is called again and again.
RateInit ==
  /\ store = EmptyStore
  /\ InsIdle
  /\ GenIdle
  /\ OrchIdle
  /\ MainIdle
  /\ PureIdle
  /\ exported = << >>
  /\ clock = StartTime
  /\ lastRequestTime = 0
  /\ requestCount = 0
  /\ resetTime = StartTime + Minute
  /\ maxRequestsPerMinute \in Rpms
  /\ ratePc = "out"
  /\ rateNow = 0
  /\ rateWake = 0
  /\ permits = << >>

RateNext ==
  \/ RateEnter
  \/ RateLimitWake
  \/ RateSpacingWake

SpecRate == RateInit /\ [][RateNext]_vars

\* One run of generateAllData by a constructed orchestrator.
RunInitWith(configs) ==
  /\ store \in {EmptyStore, PreloadedStore}
  /\ InsIdle
  /\ GenIdle
  /\ AuxIdle
  /\ orchPc = "start"
  /\ \E cfg \in configs :
       /\ totalProperties = cfg.n
       /\ batchSize = cfg.b
       /\ progress = NewProgress(cfg.n)
  /\ requests = << >>
  /\ chunkIdx = 0
  /\ orchData = << >>
  /\ rawFiles = << >>
  /\ promptAnswer = << >>
  /\ summary = << >>

RunInit == RunInitWith(RunConfigs)

RunNext ==
  \/ OrchGetPropertyCount
  \/ OrchPrompt
  \/ OrchAfterGenerate
  \/ OrchSaveRawData
  \/ OrchAfterInsert
  \/ OrchDelay
  \/ OrchSummarize
  \/ OrchShowSampleData
  \/ OrchDisconnect
  \/ GenEnforceRateLimit /\ UNCHANGED <<store, insVars, orchVars, auxVars>>
  \/ GenApiCall /\ UNCHANGED <<store, insVars, orchVars, auxVars>>
  \/ GenPause /\ UNCHANGED <<store, insVars, orchVars, auxVars>>
  \/ InsCheck(1)
  \/ InsTransaction(1)

SpecRun == RunInit /\ [][RunNext]_vars

\* The run is one sequential flow whose awaited operations all complete, so a
\* step that can be taken is eventually taken.
SpecRunFair == SpecRun /\ WF_vars(RunNext)

\* Runs whose batch size does not divide the chunk size: 51 requests in slices
\* of 30, and 51 requests in slices of 50.
SliceConfigs == {[n |-> 51, b |-> 30], [n |-> 51, b |-> 50]}

SlicesInit == RunInitWith(SliceConfigs)

SpecSlices == SlicesInit /\ [][RunNext]_vars

\* One execution of the script: main() from its first statement to the exit.
MainInit ==
  /\ store \in {EmptyStore, PreloadedStore}
  /\ InsIdle
  /\ GenIdle
  /\ OrchIdle
  /\ RateIdle
  /\ PureIdle
  /\ exported = << >>
  /\ mainPc = "start"
  /\ credential \in Credentials
  /\ validateOnly \in BOOLEAN
  /\ exitCode = << >>

MainNext ==
  \/ MainConstruct
  \/ MainAfterGenerate
  \/ MainValidateCount
  \/ MainValidateSample
  \/ MainValidateDisconnect
  \/ MainCatch
  \/ MainReturn
  \/ RunNext

SpecMain == MainInit /\ [][MainNext]_vars

\* One insertProperties call on generated records into an empty store, and the
\* exporter reading the store back.
RoundTripNext ==
  \/ CallInsertProperties(1, MaxBatch, {"idle"})
  \/ SupplyRecord(1, RoundTripRecords)
  \/ InsCheck(1)
  \/ InsTransaction(1)
  \/ ExportAllData

SpecRoundTrip == InsInit /\ [][RoundTripNext]_vars

\* ======================================================================
\* Properties of the insertion service
\* ======================================================================
RootsWithZpid(st, z) == {i \in 1..Len(st.properties) : st.properties[i].zpid = z}
RowsOf(table, id) == {i \in 1..Len(table) : table[i].propertyId = id}
Inserted(p) == {j \in 1..Len(outcomes[p]) : outcomes[p][j] = "inserted"}
Reading(p) == insPc[p] = "check" /\ insIdx[p] <= Len(propertiesData[p])

\* ---- C1
DuplicateAttempt(p) ==
  /\ Reading(p)
  /\ ValidatePropertyData(CurrentRecord(p))
  /\ RootsWithZpid(store, CurrentRecord(p).zpid) # {}

C1_Step ==
  DuplicateAttempt(1) =>
    /\ store' = store
    /\ insertedCount' = insertedCount
    /\ outcomes'[1] = Append(outcomes[1], "exists")
    /\ insIdx'[1] = insIdx[1] + 1
    /\ insPc'[1] = IF insIdx[1] < insLen[1] THEN "check" ELSE "returned"

C1_State ==
  \A j \in 1..Len(outcomes[1]) :
    LET z == propertiesData[1][j].zpid
    IN /\ outcomes[1][j] \in {"inserted", "exists"} =>
            Cardinality(RootsWithZpid(store, z)) = 1
       /\ outcomes[1][j] = "inserted" =>
            /\ \E i \in RootsWithZpid(store, z) :
                 store.properties[i] = PropertyRow(propertiesData[1][j], i)
            /\ \A k \in (j + 1)..Len(outcomes[1]) :
                 propertiesData[1][k].zpid = z => outcomes[1][k] \in {"exists", "invalid"}
       /\ (outcomes[1][j] = "exists" /\ RootsWithZpid(storeBefore[1], z) # {}) =>
            FindUnique(store, z) = FindUnique(storeBefore[1], z)

\* C1: a valid record whose zpid is already stored (by an earlier record of the
\* same call or by an earlier call) is skipped: the store and the count are left
\* as they are, "exists" is logged, and the loop goes on to the next record; so
\* a zpid offered twice has exactly one root row, the one the first attempt wrote.
C1_DuplicateIsSkipped == [](C1_State) /\ [][C1_Step]_vars

C1_Witness ==
  /\ calls = 2
  /\ insPc[1] = "returned"
  /\ outcomes[1] = <<"exists", "inserted">>
  /\ FindUnique(store, propertiesData[1][1].zpid)[1].address # propertiesData[1][1].address

\* ---- C2
\* C2: no two root rows share a zpid, and every root row has at most one
\* Listing Detail row and at most one Feature Set row.
C2_StoreUnique ==
  /\ \A i, j \in 1..Len(store.properties) :
       i # j => store.properties[i].zpid # store.properties[j].zpid
  /\ \A i \in 1..Len(store.properties) :
       /\ Cardinality(RowsOf(store.listings, store.properties[i].id)) <= 1
       /\ Cardinality(RowsOf(store.features, store.properties[i].id)) <= 1

C2_Witness ==
  /\ Len(outcomes[1]) = 1 /\ Len(outcomes[2]) = 1
  /\ propertiesData[1][1].zpid = propertiesData[2][1].zpid
  /\ propertiesData[1][1] # propertiesData[2][1]
  /\ outcomes[1][1] = "error" /\ outcomes[2][1] = "inserted"
  /\ storeBefore[1] = EmptyStore /\ storeBefore[2] = EmptyStore
  /\ Len(store.listings) = 1 /\ Len(store.features) = 1

\* ---- C3
\* C3: the store always holds, on top of what it held when the call started,
\* the complete aggregates of exactly the records logged as inserted: a record
\* whose transaction failed has left no row, no sub-record row is without its
\* root row, and every inserted root row has all the sub-records of its record.
C3_AllOrNothing ==
  LET before == storeBefore[1]
      data == propertiesData[1]
      ins == Inserted(1)
  IN /\ \A i \in 1..Len(store.listings) :
          \E r \in 1..Len(store.properties) : store.properties[r].id = store.listings[i].propertyId
     /\ \A i \in 1..Len(store.features) :
          \E r \in 1..Len(store.properties) : store.properties[r].id = store.features[i].propertyId
     /\ \A i \in 1..Len(store.photos) :
          \E r \in 1..Len(store.properties) : store.properties[r].id = store.photos[i].propertyId
     /\ Len(store.properties) = Len(before.properties) + Cardinality(ins)
     /\ Len(store.listings) =
          Len(before.listings) + Cardinality({j \in ins : data[j].listing # << >>})
     /\ Len(store.features) =
          Len(before.features) + Cardinality({j \in ins : data[j].features # << >>})
     /\ Len(store.photos) =
          Len(before.photos)
          + Cardinality(UNION {{<<j, i>> : i \in 1..Len(data[j].photos)} : j \in ins})
     /\ \A j \in ins : \A r \in RootsWithZpid(store, data[j].zpid) :
          LET id == store.properties[r].id
          IN /\ Cardinality(RowsOf(store.listings, id)) = Len(data[j].listing)
             /\ Cardinality(RowsOf(store.features, id)) = Len(data[j].features)
             /\ Cardinality(RowsOf(store.photos, id)) = Len(data[j].photos)

C3_Witness ==
  /\ insPc[1] = "returned"
  /\ outcomes[1] = <<"inserted", "error">>
  /\ Len(propertiesData[1][1].photos) > 0
  /\ Len(propertiesData[1][2].photos) > 0
  /\ ValidatePropertyData(propertiesData[1][2])

\* ---- C4
OutOfBounds(r) ==
  \/ r.bedrooms = 0 \/ r.sqft = 0 \/ r.price = 0
  \/ r.latitude < LatMin \/ r.latitude > LatMax
  \/ r.longitude < LonMin \/ r.longitude > LonMax

C4_State ==
  /\ \A j \in 1..Len(outcomes[1]) :
       OutOfBounds(propertiesData[1][j]) => outcomes[1][j] = "invalid"
  /\ \A i \in 1..Len(store.properties) : ~OutOfBounds(store.properties[i])

C4_Step ==
  (Reading(1) /\ OutOfBounds(CurrentRecord(1))) =>
    /\ ~ValidatePropertyData(CurrentRecord(1))
    /\ store' = store
    /\ insertedCount' = insertedCount
    /\ insPc'[1] # "tx"

\* C4: a record with bedrooms, sqft or price 0, or with a latitude or longitude
\* outside the bounding box, is rejected by validatePropertyData: its step
\* writes nothing and counts nothing, it is logged as invalid, and no root row
\* of the store is ever out of these bounds.
C4_OutOfBoundsRejected == [](C4_State) /\ [][C4_Step]_vars

C4_Witness ==
  /\ insPc[1] = "returned"
  /\ outcomes[1] = <<"invalid", "inserted">>
  /\ propertiesData[1][1].sqft = 0
  /\ calls = 2 /\ storeBefore[1] # EmptyStore

\* ---- C5
\* C5: insertProperties never ends by throwing; it returns only after every
\* record of the list has been processed, whatever failed on the way, and its
\* count is the number of records whose transaction committed, which is the
\* number of root rows the call added and lies between 0 and the list length.
C5_CountIsCommitted ==
  /\ insPc[1] \in {"idle", "check", "tx", "returned"}
  /\ insertedCount[1] = Cardinality(Inserted(1))
  /\ insertedCount[1] = Len(store.properties) - Len(storeBefore[1].properties)
  /\ 0 <= insertedCount[1] /\ insertedCount[1] <= insLen[1]
  /\ insPc[1] = "returned" =>
       /\ Len(outcomes[1]) = insLen[1]
       /\ Len(propertiesData[1]) = insLen[1]

C5_Witness ==
  /\ insPc[1] = "returned"
  /\ outcomes[1] = <<"error", "inserted">>
  /\ insertedCount[1] = 1
  /\ propertiesData[1][1].zpid # propertiesData[1][2].zpid

\* ======================================================================
\* Properties of the batch generator
\* ======================================================================
RECURSIVE Flatten(_)
Flatten(ss) == IF ss = << >> THEN << >> ELSE Head(ss) \o Flatten(Tail(ss))

\* Math.ceil(n / b) for b >= 1.
CeilDiv(n, b) == CHOOSE c \in 0..n : c * b >= n /\ (c = 0 \/ (c - 1) * b < n)

SliceSucceeded(c) ==
  /\ c.response.kind = "json"
  /\ \A i \in 1..Len(c.response.items) : SchemaOk(c.response.items[i])

Contribution(c) ==
  IF SliceSucceeded(c)
  THEN [i \in 1..Len(c.response.items) |-> SchemaParsed(c.response.items[i])]
  ELSE << >>

\* ---- C6
\* C6: whatever fails in a slice (rejected call, empty content, unparseable
\* JSON, schema violation), the results so far are the concatenation, in call
\* order, of the records of the slices that succeeded, and generatePropertyBatch
\* returns only after every slice has been sent.
C6_SliceFailureIsolated ==
  /\ genResults = Flatten([k \in 1..Len(genCalls) |-> Contribution(genCalls[k])])
  /\ genPc = "returned" => Len(genCalls) = CeilDiv(Len(genRequests), genBatchSize)

C6_Witness ==
  /\ genPc = "returned"
  /\ Len(genCalls) = 4
  /\ genCalls[1].response.kind = "throw"
  /\ genCalls[2].response.items = <<ApiGood(1), ApiOutOfArea>>
  /\ genCalls[3].response.items = <<ApiGood(3), ApiMalformed>>
  /\ genCalls[4].response.items = <<ApiGood(4)>>
  /\ Len(genResults) = 3

\* ---- C10
\* C10: call k is sent the requests (k-1)b+1 .. min(kb, n), so the slices are
\* consecutive, do not overlap and are in order; each has b requests except
\* the last, which has 1..b; and at the return the slices together are the
\* request list and ceil(n/b) calls have been attempted.
C10_Slicing ==
  LET n == Len(genRequests)
      b == genBatchSize
      total == CeilDiv(n, b)
  IN /\ Len(genCalls) <= total
     /\ \A k \in 1..Len(genCalls) :
          LET sl == genCalls[k].slice
          IN /\ sl = [j \in 1..(Min(k * b, n) - (k - 1) * b) |-> genRequests[(k - 1) * b + j]]
             /\ Len(sl) >= 1 /\ Len(sl) <= b
             /\ k < total => Len(sl) = b
     /\ genPc = "returned" =>
          /\ Len(genCalls) = total
          /\ Flatten([k \in 1..Len(genCalls) |-> genCalls[k].slice]) = genRequests

C10_Witness ==
  /\ genPc = "returned"
  /\ Len(genRequests) = 4 /\ genBatchSize = 3
  /\ Len(genCalls) = 2
  /\ genCalls[1].response.kind = "unparseable"

\* ======================================================================
\* Properties of a run of the orchestrator
\* ======================================================================
Ended == orchPc \in {"returned", "aborted", "thrown"}
SaidYes == promptAnswer \in {<<"y">>, <<"Y">>}

SchemaFailure(c) ==
  \/ c.response.kind = "badshape"
  \/ c.response.kind = "json" /\ \E i \in 1..Len(c.response.items) : ~SchemaOk(c.response.items[i])

\* C8: in a run planned with 5 requests and batch size 2 the calls are sent the
\* slices (1,2), (3,4), (5) in that order; when the middle response fails schema
\* validation the inserted total is at most 3, and the run ends with the summary.
C8_FiveByTwo ==
  (totalProperties = 5 /\ batchSize = 2) =>
    /\ \A k \in 1..Len(genCalls) : genCalls[k].slice = <<<<1, 2>>, <<3, 4>>, <<5>>>>[k]
    /\ orchPc \notin {"start", "prompt", "generating", "aborted"} /\ requests # << >>
         => Len(genCalls) = 3
    /\ (Len(genCalls) = 3 /\ SchemaFailure(genCalls[2])) =>
         /\ progress.totalInserted <= 3
         /\ orchPc = "returned" => summary # << >>

\* ---- C9
ThreeGoodNewRecords(c) ==
  /\ c.response.kind = "json"
  /\ Len(c.response.items) = 3
  /\ \A i \in 1..3 :
       /\ SchemaOk(c.response.items[i])
       /\ ~OutOfBounds(c.response.items[i])
       /\ RootsWithZpid(storeBefore[1], c.response.items[i].zpid) = {}
       /\ \A j \in 1..3 : i # j => c.response.items[i].zpid # c.response.items[j].zpid

\* C9: in a run planned with 3 requests and batch size 3 exactly one call is
\* made, with all three requests; when its response holds 3 well-formed records
\* with distinct zpids that are not in the store, and no transaction fails, all
\* 3 get a root row and the inserted count (of the call, of the run, of the
\* summary) is 3.
C9_ThreeByThree ==
  (totalProperties = 3 /\ batchSize = 3) =>
    /\ Len(genCalls) <= 1
    /\ \A k \in 1..Len(genCalls) : genCalls[k].slice = <<1, 2, 3>>
    /\ orchPc \in {"saving", "inserting", "delay", "summarizing", "sample", "disconnect",
                   "returned"} => Len(genCalls) = 1
    /\ ( /\ orchPc \in {"delay", "summarizing", "sample", "disconnect", "returned"}
         /\ Len(genCalls) = 1
         /\ ThreeGoodNewRecords(genCalls[1])
         /\ \A j \in 1..Len(outcomes[1]) : outcomes[1][j] # "error" ) =>
           /\ insertedCount[1] = 3
           /\ progress.totalInserted = 3
           /\ \A i \in 1..3 :
                Cardinality(RootsWithZpid(store, genCalls[1].response.items[i].zpid)) = 1
           /\ summary # << >> => summary[1].inserted = 3

C9_Witness ==
  /\ totalProperties = 3 /\ batchSize = 3
  /\ orchPc = "returned"
  /\ Len(genCalls) = 1
  /\ ThreeGoodNewRecords(genCalls[1])
  /\ summary # << >> /\ summary[1].inserted = 3
  /\ Len(store.properties) = 3

\* ---- C11
\* The requests of chunk k (0-based) of the planned list.
ChunkRange(k) == {r \in 1..Len(requests) : k * ChunkSize < r /\ r <= (k + 1) * ChunkSize}

\* The zpids of the records of data logged as `what`, in the order of the list.
RECURSIVE ZpidsLogged(_, _, _)
ZpidsLogged(data, outs, what) ==
  IF outs = << >> THEN << >>
  ELSE (IF Head(outs) = what THEN <<Head(data).zpid>> ELSE << >>)
       \o ZpidsLogged(Tail(data), Tail(outs), what)

C11_State ==
  /\ \A k \in 1..Len(genCalls) : \A i \in 1..Len(genCalls[k].slice) :
       genCalls[k].slice[i] \in ChunkRange(progress.currentChunk - 1)
  /\ \A k, j \in 1..Len(genCalls) :
       k < j => \A a \in 1..Len(genCalls[k].slice), b \in 1..Len(genCalls[j].slice) :
                  genCalls[k].slice[a] < genCalls[j].slice[b]
  /\ orchPc \in {"inserting", "delay"} =>
       propertiesData[1] = Flatten([k \in 1..Len(genCalls) |-> Contribution(genCalls[k])])
  /\ insIdx[1] = Len(outcomes[1]) + 1
  /\ insPc[1] # "idle" =>
       [i \in 1..(Len(store.properties) - Len(storeBefore[1].properties)) |->
          store.properties[Len(storeBefore[1].properties) + i].zpid]
       = ZpidsLogged(propertiesData[1], outcomes[1], "inserted")

C11_Step ==
  /\ chunkIdx' # chunkIdx =>
       /\ chunkIdx' = chunkIdx + 1
       /\ orchPc \in {"generating", "delay"}
       /\ genPc = "returned"
       /\ insPc[1] \in {"idle", "returned"}
  /\ (genCalls' # genCalls /\ genCalls' # << >>) =>
       /\ orchPc = "generating" /\ orchPc' = "generating"
       /\ chunkIdx' = chunkIdx
       /\ insPc[1] \in {"idle", "returned"}
       /\ genCalls' = Append(genCalls, genCalls'[Len(genCalls')])
  /\ (outcomes' # outcomes /\ outcomes'[1] # << >>) =>
       /\ orchPc = "inserting" /\ orchPc' = "inserting"
       /\ genPc = "returned"
       /\ Len(outcomes'[1]) = Len(outcomes[1]) + 1
  /\ store' # store => orchPc = "inserting" /\ insPc[1] = "tx"

\* C11: chunk k+1 starts only when the generation and the insertion of chunk k
\* have returned, and chunkIdx goes up by one; every completion call is made
\* during its chunk's Generating, for requests of that chunk, each slice after
\* the slices before it; the list inserted is the responses' records in call
\* and response order, the loop offers them one by one in that order, and the
\* root rows a call adds are in the order of the list.
C11_StrictOrder == [](C11_State) /\ [][C11_Step]_vars

C11_Witness ==
  /\ totalProperties = 51
  /\ orchPc = "returned"
  /\ progress.currentChunk = 2
  /\ Len(rawFiles) = 2
  /\ progress.totalInserted = 4
  /\ [i \in 1..4 |-> store.properties[i].zpid] = <<1, 2, 3, 4>>

\* ---- C12
\* The chunk the loop worked on last threw in generation: every completion call
\* made for it was rejected.
LastChunkThrew ==
  /\ genCalls # << >>
  /\ \A k \in 1..Len(genCalls) : genCalls[k].response.kind = "throw"

C13_SpacingExact ==
  \A k \in 2..Len(permits) :
    (permits[k] - permits[k - 1]) * maxRequestsPerMinute >= Minute

\* C13 as amended: between two consecutive permits at least the whole
\* milliseconds of 60000 / maxRequestsPerMinute elapse (all of it when the
\* ceiling divides 60000), whatever the time between the calls, the lateness of
\* the timers and the state of the window; lastRequestTime is the last permit.
C13_SpacingWholeMs ==
  /\ \A k \in 2..Len(permits) :
       /\ permits[k] - permits[k - 1] >= Minute \div maxRequestsPerMinute
       /\ Minute % maxRequestsPerMinute = 0 =>
            (permits[k] - permits[k - 1]) * maxRequestsPerMinute >= Minute
  /\ permits # << >> => lastRequestTime = permits[Len(permits)]
  /\ clock >= lastRequestTime

C13_Witness ==
  /\ maxRequestsPerMinute = 7
  /\ Len(permits) = 3
  /\ permits[2] - permits[1] = 8571
  /\ permits[3] - permits[2] > 8571

\* ---- C14
C14_State ==
  /\ 0 <= requestCount /\ requestCount <= maxRequestsPerMinute
  /\ ratePc = "limitWait" =>
       /\ requestCount = maxRequestsPerMinute
       /\ rateWake = resetTime
       /\ clock < resetTime

C14_Step ==
  /\ (requestCount' < requestCount \/ resetTime' # resetTime) =>
       /\ clock' >= resetTime
       /\ resetTime' >= clock' /\ resetTime' <= clock' + Minute
       /\ requestCount' \in {0, 1}
  /\ permits' # permits =>
       /\ Len(permits') = Len(permits) + 1
       /\ requestCount' >= 1
       /\ requestCount' = requestCount + 1 \/ (requestCount' = 1 /\ clock' >= resetTime)
  /\ (ratePc = "out" /\ ratePc' # "out" /\ requestCount' = maxRequestsPerMinute
        /\ clock' < resetTime) => ratePc' = "limitWait"
  /\ (ratePc = "out" /\ requestCount = maxRequestsPerMinute /\ clock' < resetTime) =>
       permits' = permits
  /\ ratePc = "limitWait" => clock' >= resetTime

NothingBegun ==
  /\ orchPc = "none"
  /\ requests = << >>
  /\ genCalls = << >>
  /\ genPc = "idle"
  /\ rawFiles = << >>
  /\ calls = 0
  /\ \A p \in Procs : insPc[p] = "idle"

\* C15: with no API credential in the environment the run does nothing but go
\* to main's catch and exit with code 1: no request is planned, no completion
\* call is made and the store is never written.
C15_NoCredentialAborts ==
  /\ [](credential = << >> =>
         /\ NothingBegun
         /\ mainPc \in {"start", "caught", "exited"}
         /\ exitCode \in {<< >>, <<1>>})
  /\ [][credential = << >> => store' = store /\ mainPc' \in {"caught", "exited"}]_vars

C15_Witness ==
  /\ credential = << >>
  /\ ~validateOnly
  /\ mainPc = "exited"
  /\ exitCode = <<1>>
  /\ store = PreloadedStore

\* ---- C16
\* C16: in validate-only mode no request is planned, no completion call is
\* made, no debug artifact is written and no step changes the store; the run
\* only counts and samples the stored data.
C16_ValidateOnlyReadsOnly ==
  /\ [](validateOnly =>
         /\ NothingBegun
         /\ summary = << >>
         /\ mainPc \in {"start", "validate", "validateSample", "validateDisconnect", "done",
                         "caught", "exited"})
  /\ [][validateOnly => store' = store]_vars

C16_Witness ==
  /\ validateOnly
  /\ HasApiKey(credential)
  /\ mainPc = "exited"
  /\ exitCode = <<0>>
  /\ store = PreloadedStore

\* ---- C17
SliceFailed == \E c \in 1..Len(genCalls) : ~SliceSucceeded(genCalls[c])
RecordLost == \E j \in 1..Len(outcomes[1]) : outcomes[1][j] # "inserted"

C17_State ==
  /\ exitCode \in {<< >>, <<0>>, <<1>>}
  /\ exitCode # << >> <=> mainPc = "exited"
  /\ (mainPc = "exited" /\ (orchPc = "thrown" \/ ~HasApiKey(credential))) => exitCode = <<1>>
  /\ (exitCode = <<0>> /\ ~validateOnly) => orchPc \in {"returned", "aborted"}

C17_Step ==
  /\ exitCode' # exitCode =>
       \/ exitCode' = <<1>> /\ mainPc = "caught"
       \/ exitCode' = <<0>> /\ mainPc = "done"
  /\ (mainPc' = "caught" /\ mainPc # "caught") =>
       \/ mainPc = "start" /\ ~HasApiKey(credential)
       \/ mainPc = "generate" /\ orchPc = "thrown"
       \/ mainPc \in {"validate", "validateSample", "validateDisconnect"}
  /\ (mainPc = "generate" /\ orchPc' # "thrown") => mainPc' \in {"generate", "validate"}
  /\ orchPc' = "thrown" => orchPc \in {"thrown", "start", "sample", "disconnect"}

\* C17: the exit code is 1 exactly when main's catch is reached, which happens
\* only for an error thrown by the constructor, by generateAllData's own
\* awaited calls outside the chunk loop, or by validateGeneration; a failed
\* slice, a skipped, rejected or failed record leaves the run on its way to the
\* end, where the exit code is 0.
C17_ExitCode == [](C17_State) /\ [][C17_Step]_vars

C17_Witness ==
  /\ exitCode = <<0>>
  /\ ~validateOnly
  /\ SliceFailed
  /\ RecordLost
  /\ progress.totalInserted < progress.totalRequested

\* ======================================================================
\* Properties of a run: retries, artifacts
\* ======================================================================
\* ---- C18
SliceIds(c) == {genCalls[c].slice[i] : i \in 1..Len(genCalls[c].slice)}

C18_State ==
  /\ \A c1, c2 \in 1..Len(genCalls) : c1 # c2 => SliceIds(c1) \cap SliceIds(c2) = {}
  /\ \A c \in 1..Len(genCalls) : SliceIds(c) # {} /\ SliceIds(c) \subseteq ChunkRange(progress.currentChunk - 1)
  /\ Len(genCalls) <= Ceil(Len(genRequests), genBatchSize)
  /\ calls <= progress.currentChunk
  /\ insPc[1] # "idle" =>
       /\ insIdx[1] = Len(outcomes[1]) + 1
       /\ Len(outcomes[1]) <= Len(propertiesData[1])
  /\ orchPc \in {"inserting", "delay"} => propertiesData[1] = orchData

C18_Step ==
  /\ chunkIdx' >= chunkIdx
  /\ genCalls' # genCalls =>
       \/ genCalls' = << >> /\ progress'.currentChunk = progress.currentChunk + 1
       \/ /\ Len(genCalls') = Len(genCalls) + 1
          /\ SubSeq(genCalls', 1, Len(genCalls)) = genCalls
          /\ genPc = "call"
  /\ genCalls' # << >> => genI' >= genI
  /\ (genPc' = "call" /\ genPc # "call") => genPc = "rate"
  /\ (genPc = "call" /\ genCalls' # genCalls) => genPc' # "call" /\ (genPc' = "rate" => genI' > genI)
  /\ insIdx'[1] # insIdx[1] =>
       \/ insIdx'[1] = insIdx[1] + 1 /\ Len(outcomes'[1]) = Len(outcomes[1]) + 1
       \/ insIdx'[1] = 1 /\ calls' = calls + 1 /\ outcomes'[1] = << >>
  /\ (insPc[1] = "tx" /\ insPc'[1] \in {"tx", "check"}) =>
       (insIdx'[1] = insIdx[1] \/ insIdx'[1] = insIdx[1] + 1) /\
       (insPc'[1] = "tx" => UNCHANGED <<store, insIdx>>)
  /\ orchData' # orchData => orchPc = "generating" /\ orchPc' = "saving"

\* C18: in a run every completion call carries a slice of requests that no
\* other call of the run carries, whatever the earlier calls returned; the
\* loop index never goes back; each chunk's records go to insertProperties
\* once, and each position of the list gets one outcome (one lookup, at most
\* one transaction) before the loop moves on; a call is preceded only by the
\* rate limiter.
C18_NoRetry == [](C18_State) /\ [][C18_Step]_vars

C18_Witness ==
  /\ orchPc = "returned"
  /\ Len(genCalls) = 3
  /\ genCalls[1].response.kind = "throw"
  /\ ~SliceSucceeded(genCalls[2])
  /\ genCalls[2].response.kind = "json"
  /\ outcomes[1] = <<"error">>

\* ---- C19
LoopDone == orchPc \in {"summarizing", "sample", "disconnect", "returned"}
ChunkFile(k) == <<"data/raw_generated/chunk_", <<0, 0, k>>, ".json">>
FilesNamed(name) == {i \in 1..Len(rawFiles) : rawFiles[i].name = name}
Generated == Flatten([c \in 1..Len(genCalls) |-> Contribution(genCalls[c])])

C19_State ==
  /\ Len(rawFiles) <= progress.currentChunk
  /\ \A i \in 1..Len(rawFiles) :
       /\ \E k \in 0..(progress.currentChunk - 1) : rawFiles[i].name = ChunkFile(k)
       /\ FilesNamed(rawFiles[i].name) = {i}
       /\ rawFiles[i].content # << >>
       /\ \A j \in 1..Len(rawFiles[i].content) : SchemaOk(rawFiles[i].content[j])
  /\ LoopDone => Len(Flatten([i \in 1..Len(rawFiles) |-> rawFiles[i].content]))
                   <= progress.totalGenerated

C19_Step ==
  /\ rawFiles' # rawFiles =>
       /\ orchPc = "saving"
       /\ rawFiles' = Append(rawFiles, [name |-> ChunkFile(chunkIdx), content |-> orchData])
       /\ orchData = Generated
  /\ (orchPc = "generating" /\ orchPc' # "generating" /\ Generated = << >>) =>
       /\ orchPc' # "saving"
       /\ FilesNamed(ChunkFile(chunkIdx)) = {}

RECURSIVE Kept(_, _)
Kept(data, outs) ==
  IF outs = << >> THEN << >>
  ELSE (IF Head(outs) = "inserted" THEN <<Head(data)>> ELSE << >>) \o Kept(Tail(data), Tail(outs))

\* An optional generated value, when present, is the value read back.
Back(opt, value) == opt # << >> => value = opt[1]

SameRecord(g, e) ==
  /\ e.zpid = g.zpid /\ e.address = g.address /\ e.zipCode = g.zipCode
  /\ e.latitude = g.latitude /\ e.longitude = g.longitude
  /\ e.bedrooms = g.bedrooms /\ e.bathrooms = g.bathrooms /\ e.sqft = g.sqft
  /\ e.yearBuilt = g.yearBuilt /\ e.propertyType = g.propertyType /\ e.price = g.price
  /\ Back(g.status, e.status)
  /\ (g.listing = << >>) = (e.listing = << >>)
  /\ g.listing # << >> => e.listing[1].listDate = NewDate(g.listing[1].listDate)
  /\ (g.features = << >>) = (e.features = << >>)
  /\ g.features # << >> =>
       /\ Back(g.features[1].fireplace, e.features[1].fireplace)
       /\ Back(g.features[1].walkabilityScore, e.features[1].walkabilityScore)
  /\ Len(e.photos) = Len(g.photos)
  /\ \A i \in 1..Len(g.photos) :
       /\ e.photos[i].caption = g.photos[i].caption
       /\ Back(g.photos[i].isPrimary, e.photos[i].isPrimary)
       /\ Back(g.photos[i].sortOrder, e.photos[i].sortOrder)

\* C20: every record that was inserted is read back with every scalar it was
\* generated with (0, false and "" included; a date as the same instant) and
\* with its photos in the generated order.
C20_RoundTrip ==
  exported # << >> =>
    LET kept == Kept(propertiesData[1], outcomes[1])
    IN /\ Len(exported) = Len(kept)
       /\ \A k \in 1..Len(kept) : SameRecord(kept[k], exported[k])

\* A record generated with walkabilityScore 0 is inserted and read back with 80,
\* next to one generated with 75 that is read back as it was.
C20_Witness ==
  /\ Len(exported) = 2
  /\ outcomes[1] = <<"inserted", "inserted">>
  /\ propertiesData[1][1].features # << >>
  /\ propertiesData[1][1].features[1].walkabilityScore = <<0>>
  /\ exported[1].features[1].walkabilityScore = 80
  /\ propertiesData[1][2].status = <<"Pending">>
  /\ SameRecord(propertiesData[1][2], exported[2])

\* ======================================================================
\* Properties of the planning and parsing functions
\* ======================================================================
\* ---- C21
\* C21: a JSON text in a json-tagged fence, in a plain fence and with no fence
\* parses to the value the text itself parses to, whatever white space
\* surrounds it; a content that does not start with a fence reaches the parser
\* as its trimmed self.
C21_FenceStripping ==
  parsedData # << >> =>
    /\ \A j \in JsonTexts, a \in Blanks, b \in Blanks, l \in Blanks, r \in Blanks :
         /\ responseContent \in {Fenced(<<"json">>, j, a, b, l, r), Fenced(<< >>, j, a, b, l, r),
                                  Unfenced(j, l, r)}
              => parsedData[1] = JsonParse(j) /\ parsedData[1] # <<"SyntaxError">>
         /\ JsonParse(StripFences(Fenced(<<"json">>, j, a, b, l, r))) = JsonParse(j)
         /\ JsonParse(StripFences(Fenced(<< >>, j, a, b, l, r))) = JsonParse(j)
    /\ (Trim(responseContent) # << >> /\ Head(Trim(responseContent)) # "fence") =>
         parsedData[1] = JsonParse(Trim(responseContent))

C21_Witness ==
  /\ responseContent = <<"\n", "fence", " ", "\n", "[", "1", ",", "1", "]", "\n", "fence", "\n">>
  /\ parsedData = <<(<<"[", "1", ",", "1", "]">>)>>

\* ---- C22
\* The acceptance condition as stated, for a run in the given year.
AcceptedAsStated(r, year) ==
  /\ r.missing \cap RequiredFields = {}
  /\ r.bedrooms > 0 /\ IsInteger(r.bedrooms)
  /\ r.sqft > 0 /\ IsInteger(r.sqft)
  /\ r.price > 0 /\ IsInteger(r.price)
  /\ r.bathrooms > 0
  /\ 1800 <= r.yearBuilt /\ r.yearBuilt <= year
  /\ 3780 <= r.latitude /\ r.latitude <= 3790
  /\ -12230 <= r.longitude /\ r.longitude <= -12220

\* C22: a record is rejected by validatePropertyData (skipped, not counted,
\* nothing written) exactly when it does not satisfy the stated condition with
\* the year of the run as the upper bound of yearBuilt.
C22_ValidationAsStated ==
  /\ \A j \in 1..Len(outcomes[1]) :
       outcomes[1][j] = "invalid" <=> ~AcceptedAsStated(propertiesData[1][j], currentYear)
  /\ (outcomes[1] = <<"invalid">>) => (store = EmptyStore /\ insertedCount[1] = 0)

\* A record built in the year after the hard-coded bound, offered in that year
\* or a later one, is rejected.
C22_Witness ==
  /\ currentYear = 2026
  /\ propertiesData[1][1].yearBuilt = 2025
  /\ outcomes[1] = <<"invalid">>
  /\ insPc[1] = "returned"

\* ---- C23
\* For every bedroom count from 1 up and every factor, the bathroom count is a
\* whole number of halves, positive, and within a quarter of the product.
BathroomsAreHalves ==
  \A b \in 1..MaxBedrooms, f \in 0..49 :
    /\ Bathrooms(b, f) % 50 = 0
    /\ Bathrooms(b, f) > 0
    /\ Bathrooms(b, f) - b * (75 + f) \in -25..25

\* C23: the bathroom count of every planned request, and of every positive
\* bedroom count with every factor in [0.75, 1.25), is a positive multiple of 0.5.
C23_BathroomsHalfStep ==
  /\ BathroomsAreHalves
  /\ \A i \in 1..Len(planRequests) :
       planRequests[i].bathrooms % 50 = 0 /\ planRequests[i].bathrooms > 0

C23_Witness ==
  /\ Len(planRequests) = 2
  /\ planRequests[1].bedrooms = 2 /\ planRequests[1].bathrooms = 150
  /\ planRequests[2].bedrooms = 5 /\ planRequests[2].bathrooms = 600
  /\ planDraw[1].factor = 49

\* ---- C24
\* The cumulative weight of the first k items.
Cum(items, k) == TotalWeight(SubSeq(items, 1, k))

\* The draws below the total that exact arithmetic maps to item k.
DrawsOf(items, k) ==
  {r \in 0..(TotalWeight(items) - 1) : WeightedRandom(items, r, 0).index = k}

\* In exact arithmetic the draws of item k are those in (Cum(k-1), Cum(k)], with
\* 0 going to the first item: an interval as long as the item's weight; the
\* fallback is not taken.  With drift, the fallback is taken only when no item
\* was selected, and returns the last item.
WeightedRandomIntervals ==
  \A items \in {PropertyTypes, BedroomDist} :
    /\ \A k \in 1..Len(items) :
         DrawsOf(items, k) =
           {r \in 0..(TotalWeight(items) - 1) :
              Cum(items, k - 1) < r /\ r <= Cum(items, k)} \cup (IF k = 1 THEN {0} ELSE {})
    /\ \A k \in 1..Len(items) : Cum(items, k) - Cum(items, k - 1) = items[k].weight
    /\ \A r \in 0..(TotalWeight(items) - 1), d \in Drifts :
         LET w == WeightedRandom(items, r, d)
         IN /\ w.index \in 1..Len(items)
            /\ w.fallback => (w.index = Len(items) /\ r + d > TotalWeight(items))
            /\ d = 0 => ~w.fallback

\* The position of a planned request's value in its distribution.
TypeIndex(req) == CHOOSE k \in 1..Len(PropertyTypes) : PropertyTypes[k].type = req.propertyType
BedroomIndex(req) == CHOOSE k \in 1..Len(BedroomDist) : BedroomDist[k].bedrooms = req.bedrooms

\* Item k is the first whose cumulative weight reaches the draw, drift included.
FirstReaching(items, k, draw, drift) ==
  /\ k = 1 \/ Cum(items, k - 1) < draw + drift
  /\ k = Len(items) \/ draw + drift <= Cum(items, k)

\* C24: weightedRandom returns a member of its list, the first item whose
\* cumulative weight reaches the draw, so that each item's draws form an
\* interval as long as its weight (70/20/10, 20/40/30/10); the fallback return
\* happens only when the loop selected nothing, and gives the last item.
C24_WeightedRandom ==
  /\ WeightedRandomIntervals
  /\ planDraw # << >> =>
       LET req == planRequests[Len(planRequests)]
           d == planDraw[1]
       IN /\ \E k \in 1..Len(PropertyTypes) : PropertyTypes[k].type = req.propertyType
          /\ \E k \in 1..Len(BedroomDist) : BedroomDist[k].bedrooms = req.bedrooms
          /\ FirstReaching(PropertyTypes, TypeIndex(req), d.typeDraw, d.typeDrift)
          /\ FirstReaching(BedroomDist, BedroomIndex(req), d.bedDraw, d.bedDrift)

C24_Witness ==
  /\ planDraw # << >>
  /\ planDraw[1].typeDraw = 70 /\ planDraw[1].typeDrift = 0
  /\ planRequests[Len(planRequests)].propertyType = "single_family"
  /\ planDraw[1].bedDraw = 99 /\ planDraw[1].bedDrift = 2
  /\ WeightedRandom(BedroomDist, 99, 2).fallback
  /\ planRequests[Len(planRequests)].bedrooms = 5

\* ---- C25
TableRanges(req) ==
  \/ /\ req.propertyType = "single_family"
     /\ req.priceRange = <<1400000, 2500000>> /\ req.sqftRange = <<1800, 3500>>
  \/ /\ req.propertyType = "condo"
     /\ req.priceRange = <<800000, 1200000>> /\ req.sqftRange = <<900, 1800>>
  \/ /\ req.propertyType = "townhouse"
     /\ req.priceRange = <<1200000, 1800000>> /\ req.sqftRange = <<1400, 2400>>

C25_State ==
  /\ planI <= planTotal
  /\ Len(planRequests) = planI
  /\ \A i \in 1..Len(planRequests) :
       /\ TableRanges(planRequests[i])
       /\ planRequests[i].bedrooms \in 2..5
       /\ planRequests[i].priceRange # <<1000000, 2000000>>
       /\ planRequests[i].sqftRange # <<1200, 2800>>

C25_Step ==
  /\ planI' = planI + 1
  /\ planTotal' = planTotal
  /\ Len(planRequests') = Len(planRequests) + 1
  /\ SubSeq(planRequests', 1, Len(planRequests)) = planRequests

\* C25: createPropertyRequests(n) pushes one request per iteration and returns
\* after n of them; every request has one of the three types with the price and
\* sqft ranges of the table for its type, never the default ranges, and 2 to 5
\* bedrooms.
C25_PlannedRequests == [](C25_State) /\ [][C25_Step]_vars

C25_Witness ==
  /\ planTotal = 2 /\ planI = 2
  /\ planRequests[1].propertyType = "condo"
  /\ planRequests[2].propertyType = "townhouse"
  /\ planRequests[2].priceRange = <<1200000, 1800000>>

\* ---- C26
InChunk == orchPc \in {"generating", "saving", "inserting", "delay"}
AfterLoop == orchPc \in {"summarizing", "sample", "disconnect", "returned"}

\* C26 as stated: every chunk the loop has left went through Inserting, so the
\* number of insertProperties calls equals the number of chunks left behind.
C26_EveryChunkAllStages ==
  /\ orchPc = "generating" => calls = chunkIdx
  /\ AfterLoop => calls = progress.totalChunks

\* The chunking: ceil(n / 50) chunks of the planned requests, whatever the batch size.
C26_State ==
  /\ progress.totalChunks * ChunkSize >= Len(requests)
  /\ progress.totalChunks * ChunkSize < Len(requests) + ChunkSize
  /\ (InChunk \/ AfterLoop) => Len(requests) = totalProperties
  /\ InChunk =>
       /\ chunkIdx < progress.totalChunks
       /\ progress.currentChunk = chunkIdx + 1
       /\ genRequests = [j \in 1..(Min(chunkIdx * ChunkSize + ChunkSize, Len(requests))
                                     - chunkIdx * ChunkSize) |->
                            requests[chunkIdx * ChunkSize + j]]
  /\ AfterLoop => chunkIdx = progress.totalChunks
  /\ calls <= chunkIdx + 1

\* The loop leaves a chunk from the delay, or from Generating with no record.
LeavesChunk ==
  \/ orchPc = "delay"
  \/ orchPc = "generating" /\ genPc = "returned" /\ genResults = << >>

C26_Step ==
  /\ (orchPc = "generating" /\ genPc = "returned" /\ genResults # << >>) =>
       /\ orchPc' = "saving"
       /\ chunkIdx' = chunkIdx
       /\ progress'.totalGenerated = progress.totalGenerated + Len(genResults)
  /\ (orchPc = "generating" /\ genPc # "returned") =>
       (orchPc' = "generating" /\ chunkIdx' = chunkIdx /\ progress' = progress)
  /\ orchPc = "saving" =>
       (orchPc' = "inserting" /\ chunkIdx' = chunkIdx /\ calls' = calls + 1
        /\ propertiesData'[1] = orchData /\ progress' = progress)
  /\ orchPc = "inserting" =>
       /\ chunkIdx' = chunkIdx
       /\ IF insPc[1] = "returned"
          THEN /\ orchPc' = "delay"
               /\ progress'.totalInserted = progress.totalInserted + insertedCount[1]
          ELSE orchPc' = "inserting" /\ progress' = progress
  /\ LeavesChunk =>
       /\ chunkIdx' = chunkIdx + 1
       /\ orchPc' = IF chunkIdx + 1 < progress.totalChunks THEN "generating" ELSE "summarizing"
       /\ genPc' = IF chunkIdx + 1 < progress.totalChunks THEN LoopPc(0, genRequests') ELSE genPc
       /\ progress'.totalGenerated = progress.totalGenerated
       /\ progress'.totalInserted = progress.totalInserted
       /\ calls' = calls
  /\ chunkIdx' # chunkIdx => LeavesChunk
  /\ calls' # calls => orchPc = "saving"
  /\ (orchPc' = "summarizing" /\ orchPc # "summarizing") =>
       (chunkIdx' = progress.totalChunks
        /\ (LeavesChunk \/ (orchPc \in {"start", "prompt"} /\ progress'.totalChunks = 0)))

\* C26: the requests are cut into ceil(n / 50) chunks whatever the batch size; a
\* chunk whose generation returned records goes through Generating, the
\* generated counter, Saving-Raw, Inserting, the inserted counter and the delay,
\* in that order, before the loop advances; a chunk whose generation returned
\* nothing advances at once; Summarizing starts only after the last chunk.
C26_ChunkStages == [](C26_State) /\ [][C26_Step]_vars

C26_Witness ==
  /\ orchPc = "summarizing"
  /\ totalProperties = 51 /\ batchSize = 50
  /\ progress.totalChunks = 2
  /\ calls = 1
  /\ progress.totalGenerated > 0

\* ---- C27
\* C27 as stated: a slice is started only when every earlier slice of the call,
\* succeeded or failed, has been followed by the 1-second pause.
C27_PauseAfterEverySlice ==
  genPc \in {"rate", "call"} => genPauses = Len(genCalls)

\* A parse failure and a schema failure were followed by the pause; the next
\* slice is about to start.
C27_Witness ==
  /\ genPc = "rate"
  /\ Len(genCalls) = 2
  /\ genCalls[1].response.kind = "unparseable"
  /\ genCalls[2].response.kind = "json" /\ ~SliceSucceeded(genCalls[2])
  /\ genPauses = 2

\* ---- C28
\* The running chunk has no artifact: its write failed.
WriteFailed == \A f \in 1..Len(rawFiles) : rawFiles[f].name # RawFileName(chunkIdx)

C28_State ==
  /\ progress.failedBatches = << >>
  /\ (orchPc \in {"inserting", "delay"} /\ WriteFailed) =>
       /\ orchData # << >>
       /\ propertiesData[1] = orchData
       /\ insLen[1] = Len(orchData)
       /\ calls >= 1
       /\ progress.totalGenerated >= Len(orchData)
  /\ (orchPc = "delay" /\ WriteFailed) => progress.totalInserted >= insertedCount[1]

C28_Step ==
  /\ (orchPc = "generating" /\ orchPc' = "saving") =>
       progress'.totalGenerated = progress.totalGenerated + Len(orchData')
  /\ (orchPc = "saving" /\ rawFiles' = rawFiles) =>
       /\ orchPc' = "inserting"
       /\ propertiesData'[1] = orchData
       /\ insPc'[1] \in {"check", "returned"}
       /\ calls' = calls + 1
       /\ progress' = progress
  /\ (orchPc = "inserting" /\ insPc[1] = "returned" /\ WriteFailed) =>
       /\ orchPc' = "delay"
       /\ progress'.totalInserted = progress.totalInserted + insertedCount[1]
       /\ progress'.failedBatches = << >>

\* C28: when the write of a chunk's raw artifact fails, the chunk's records are
\* still passed to insertProperties, the generated counter (updated before the
\* write) and the inserted counter are still updated, and the failed-chunks
\* list stays empty.
C28_SaveFailureOnlyLogged == [](C28_State) /\ [][C28_Step]_vars

C28_Witness ==
  /\ orchPc = "delay"
  /\ WriteFailed
  /\ insertedCount[1] > 0
  /\ progress.totalInserted = insertedCount[1]
  /\ progress.totalGenerated = Len(orchData)
  /\ progress.failedBatches = << >>

\* ---- C29
\* C29 as stated, its first part: every stored photo has a null URL.
C29_PhotoUrlLeftNull ==
  \A i \in 1..Len(store.photos) : store.photos[i].photoUrl = << >>

\* Photos stored with the defaults (primary for the first, sort order 0) next to
\* photos stored with their generated flag and sort order.
C29_Witness ==
  \E a, b \in 1..Len(store.photos) :
    /\ store.photos[a].caption = <<"Living room">>
    /\ store.photos[a].isPrimary /\ store.photos[a].sortOrder = 0
    /\ store.photos[a].photoUrl # << >>
    /\ store.photos[b].caption = <<"Kitchen">>
    /\ ~store.photos[b].isPrimary /\ store.photos[b].sortOrder = 1

\* ---- C30
\* The number of root records the store held when the run started: the prompt
\* is answered exactly in the runs that found the store not empty.
InitialCount == IF promptAnswer = << >> THEN 0 ELSE Len(PreloadedStore.properties)

C30_State ==
  /\ progress.currentChunk \in 0..progress.totalChunks
  /\ progress.totalRequested = totalProperties
  /\ (orchPc \in {"generating", "saving", "delay"} \/ AfterLoop) =>
       progress.totalInserted = Len(store.properties) - InitialCount
  /\ AfterLoop => progress.currentChunk = progress.totalChunks
  /\ summary # << >> =>
       /\ summary[1].generated = progress.totalGenerated
       /\ summary[1].inserted = progress.totalInserted
       /\ summary[1].requested = progress.totalRequested
       /\ IF progress.totalRequested = 0
          THEN summary[1].successRate = << >> /\ progress.totalInserted = 0
          ELSE LET rate == summary[1].successRate[1]
               IN /\ 2 * (rate * progress.totalRequested - 1000 * progress.totalInserted)
                       <= progress.totalRequested
                  /\ 2 * (1000 * progress.totalInserted - rate * progress.totalRequested)
                       < progress.totalRequested

C30_Step ==
  /\ progress'.totalGenerated >= progress.totalGenerated
  /\ progress'.totalInserted >= progress.totalInserted
  /\ progress'.totalGenerated # progress.totalGenerated =>
       /\ orchPc = "generating" /\ genPc = "returned"
       /\ progress'.totalGenerated - progress.totalGenerated
            = Len(Flatten([k \in 1..Len(genCalls) |-> Contribution(genCalls[k])]))
  /\ (orchPc = "generating" /\ orchPc' # "generating" /\ chunkIdx' = chunkIdx + 1) =>
       Flatten([k \in 1..Len(genCalls) |-> Contribution(genCalls[k])]) = << >>
  /\ progress'.totalInserted # progress.totalInserted =>
       /\ orchPc = "inserting" /\ insPc[1] = "returned"
       /\ progress'.totalInserted - progress.totalInserted
            = Len(store.properties) - Len(storeBefore[1].properties)
  /\ store' # store => orchPc = "inserting"
  /\ progress'.currentChunk # progress.currentChunk =>
       /\ progress'.currentChunk = progress.currentChunk + 1
       /\ progress'.currentChunk <= progress'.totalChunks
  /\ (progress.currentChunk > 0) => progress'.totalChunks = progress.totalChunks

\* C30: totalGenerated grows by the number of records the slices of a chunk
\* returned (those of its schema-valid responses), totalInserted by the number
\* of root records the chunk's insertion added, so that at Summarizing they are
\* the totals of the run; the summary reports them and the rate
\* totalInserted / totalRequested as a percentage with one decimal (NaN when
\* nothing was requested); both counters never decrease, and currentChunk goes
\* through 1..totalChunks one by one.
C30_Counters == [](C30_State) /\ [][C30_Step]_vars

C30_Witness ==
  /\ summary # << >>
  /\ totalProperties = 51
  /\ progress.totalChunks = 2 /\ progress.currentChunk = 2
  /\ summary[1].generated = 4
  /\ summary[1].inserted = 1
  /\ summary[1].successRate = <<20>>
  /\ InitialCount = 1

\* ======================================================================
\* Properties implied by the pipeline
\* ======================================================================
\* ---- C31
\* C31 as stated: the counters are ordered inserted <= generated <= requested,
\* and a chunk inserts at most as many records as it had requests.
C31_CountersOrdered ==
  /\ progress.totalInserted <= progress.totalGenerated
  /\ progress.totalGenerated <= progress.totalRequested
  /\ orchPc = "delay" => insertedCount[1] <= Len(genRequests)

\* A run of 5 requests whose schema-valid responses held more records than the
\* slices had requests: more generated than requested.
C31_Witness ==
  /\ orchPc = "summarizing"
  /\ totalProperties = 5
  /\ progress.totalGenerated > progress.totalRequested
  /\ progress.totalInserted <= progress.totalGenerated
  /\ \A k \in 1..Len(genCalls) : SliceSucceeded(genCalls[k])

\* ---- C32
\* Every slice of the chunk that has just been generated failed.
AllSlicesFailed ==
  /\ orchPc = "generating" /\ genPc = "returned"
  /\ genCalls # << >>
  /\ \A k \in 1..Len(genCalls) : ~SliceSucceeded(genCalls[k])

C32_State ==
  /\ progress.failedBatches = << >>
  /\ summary # << >> => summary[1].failedChunks = << >>
  /\ AllSlicesFailed => genResults = << >>

C32_Step ==
  /\ InChunk => orchPc' # "thrown"
  /\ (genCalls' # genCalls /\ genCalls' # << >>
       /\ genCalls'[Len(genCalls')].response.kind = "throw") =>
       /\ orchPc' = orchPc
       /\ genPc' = LoopPc(genI + genBatchSize, genRequests)
       /\ genResults' = genResults
  /\ (Len(outcomes'[1]) = Len(outcomes[1]) + 1
       /\ outcomes'[1][Len(outcomes'[1])] = "error") =>
       /\ orchPc' = "inserting"
       /\ insPc'[1] \in {"check", "returned"}
       /\ store' = store
  /\ AllSlicesFailed =>
       /\ chunkIdx' = chunkIdx + 1
       /\ orchPc' \in {"generating", "summarizing"}
       /\ rawFiles' = rawFiles
       /\ calls' = calls
       /\ store' = store
       /\ progress'.totalGenerated = progress.totalGenerated
       /\ progress'.totalInserted = progress.totalInserted
       /\ progress'.failedBatches = << >>

\* C32: no error of a completion call, of the parsing, of the raw-data write or
\* of a transaction leaves generatePropertyBatch, saveRawData or
\* insertProperties, so the chunk loop never throws and failedBatches is empty
\* in every state; a chunk all of whose slices failed is left at once, with no
\* artifact, no insertion and no delay, and is not reported as failed.
C32_ErrorsAbsorbed == [](C32_State) /\ [][C32_Step]_vars

C32_Witness ==
  /\ orchPc = "returned"
  /\ totalProperties = 5
  /\ Len(genCalls) = 3
  /\ genCalls[1].response.kind = "throw"
  /\ genCalls[2].response.kind = "unparseable"
  /\ genCalls[3].response.kind = "json" /\ ~SliceSucceeded(genCalls[3])
  /\ rawFiles = << >> /\ calls = 0
  /\ summary # << >> /\ summary[1].failedChunks = << >>

\* ---- C33
\* The response of the call just made violates the schema: its shape is not
\* {properties: [...]}, or one of its records is not as declared.
ViolatesSchema(resp) ==
  \/ resp.kind = "badshape"
  \/ resp.kind = "json" /\ \E i \in 1..Len(resp.items) :
        \/ resp.items[i].missing # {}
        \/ ~IsInteger(resp.items[i].bedrooms)
        \/ ~IsInteger(resp.items[i].sqft)
        \/ ~IsInteger(resp.items[i].price)

C33_Step ==
  (genCalls' # genCalls /\ genCalls' # << >>) =>
    LET resp == genCalls'[Len(genCalls')].response
    IN /\ ViolatesSchema(resp) => (genResults' = genResults /\ genPc' = "pause")
       /\ (resp.kind = "json" /\ ~ViolatesSchema(resp)) =>
            /\ Len(genResults') = Len(genResults) + Len(resp.items)
            /\ \A i \in 1..Len(resp.items) :
                 genResults'[Len(genResults) + i].zpid = resp.items[i].zpid

\* C33: a response with at least one record that violates the schema, or with
\* the wrong top-level shape, adds nothing to the results of the call, whatever
\* its other records are; a response whose records all pass adds them all.
C33_SchemaAllOrNothing == [][C33_Step]_vars

\* A response of one well-formed and one malformed record contributed nothing.
C33_Witness ==
  /\ genPc = "pause"
  /\ Len(genCalls) = 1
  /\ genCalls[1].response.kind = "json"
  /\ genCalls[1].response.items = <<ApiGood(3), ApiMalformed>>
  /\ SchemaOk(genCalls[1].response.items[1])
  /\ genResults = << >>

\* ---- C34
\* C34 as stated: a call of generatePropertyBatch returns, for every request
\* list and every batch size the command line can pass.
C34_GenerateTerminates == (genPc # "idle") ~> (genPc = "returned")

\* With batch size 0 as many calls as there are requests have been made, each
\* with an empty slice, and the loop index is still 0.
C34_Witness ==
  /\ genBatchSize = 0
  /\ Len(genRequests) = 2
  /\ Len(genCalls) = 2
  /\ genCalls[1].slice = << >> /\ genCalls[2].slice = << >>
  /\ genPc = "rate"
  /\ genI = 0

\* ---- C35
\* Inserter p is about to run the transaction of a record whose zpid another
\* writer has inserted since p's existence check.
Overtaken(p) ==
  /\ insPc[p] = "tx"
  /\ RootsWithZpid(store, CurrentRecord(p).zpid) # {}

\* The root row r is the aggregate of a record logged as inserted, whole.
AggregateOfWinner(r) ==
  \E q \in Procs : \E j \in Inserted(q) :
    LET g == propertiesData[q][j]
        id == store.properties[r].id
    IN /\ g.zpid = store.properties[r].zpid
       /\ g.address = store.properties[r].address
       /\ Cardinality(RowsOf(store.listings, id)) = (IF g.listing = << >> THEN 0 ELSE 1)
       /\ Cardinality(RowsOf(store.features, id)) = (IF g.features = << >> THEN 0 ELSE 1)
       /\ Cardinality(RowsOf(store.photos, id)) = Len(g.photos)

C35_State ==
  /\ \A z \in Zpids : Cardinality(RootsWithZpid(store, z)) <= 1
  /\ \A r \in 1..Len(store.properties) : AggregateOfWinner(r)
  /\ Len(store.listings) + Len(store.features) + Len(store.photos)
       = Cardinality(UNION {RowsOf(store.listings, store.properties[r].id) \X {"l"}
                            : r \in 1..Len(store.properties)})
         + Cardinality(UNION {RowsOf(store.features, store.properties[r].id) \X {"f"}
                              : r \in 1..Len(store.properties)})
         + Cardinality(UNION {RowsOf(store.photos, store.properties[r].id) \X {"p"}
                              : r \in 1..Len(store.properties)})
  /\ \A p \in Procs :
       /\ insPc[p] \in {"idle", "check", "tx", "returned"}
       /\ insertedCount[p] = Cardinality(Inserted(p))

C35_Step ==
  \A p \in Procs :
    (Overtaken(p) /\ insIdx'[p] # insIdx[p]) =>
      /\ store' = store
      /\ outcomes'[p] = Append(outcomes[p], "error")
      /\ insertedCount'[p] = insertedCount[p]
      /\ insPc'[p] = NextPc(p)

\* C35: when another writer inserts the same zpid between an inserter's
\* existence check and its transaction, the transaction changes nothing in the
\* store: there is still one root row for the zpid, every row of the store
\* belongs to the aggregate of a record logged as inserted, and the losing
\* record is logged as an error, not counted, and the loop goes on.
C35_CheckThenActRace == [](C35_State) /\ [][C35_Step]_vars

C35_Witness ==
  /\ insPc[1] = "returned" /\ insPc[2] = "returned"
  /\ storeBefore[1] = EmptyStore /\ storeBefore[2] = EmptyStore
  /\ outcomes[1] = <<"inserted">> /\ outcomes[2] = <<"error">>
  /\ propertiesData[1][1].zpid = propertiesData[2][1].zpid
  /\ propertiesData[1][1].photos = << >> /\ propertiesData[2][1].photos # << >>
  /\ insertedCount = <<1, 0>>
  /\ Len(store.properties) = 1 /\ store.photos = << >> /\ store.listings = << >>

\* ---- C36
\* C36 as stated, its particular case: the caller is never held in the spacing
\* wait when, at the time that wait began, the minimum spacing since the
\* previous permit had already elapsed.
C36_NoNeedlessSpacingWait ==
  ratePc = "spacingWait" =>
    (clock - lastRequestTime) * maxRequestsPerMinute < Minute

\* With a ceiling of 1 per minute the second permit comes 119 seconds after the
\* first: the wait for the window (59 s), then a spacing wait of another 59 s.
C36_Witness ==
  /\ maxRequestsPerMinute = 1
  /\ Len(permits) = 2
  /\ permits[1] = StartTime
  /\ permits[2] = StartTime + 119000
  /\ rateNow = StartTime + 1000

\* ---- C37
\* The chunk the calls of genCalls belong to, its first request and its length.
CallsChunk == progress.currentChunk - 1
ChunkFirst == CallsChunk * ChunkSize + 1
ChunkLength ==
  IF Len(requests) - CallsChunk * ChunkSize < ChunkSize
  THEN Len(requests) - CallsChunk * ChunkSize
  ELSE ChunkSize

\* The generation of the chunk is over.
ChunkGenerated ==
  /\ progress.currentChunk >= 1
  /\ genPc = "returned"

C37_State ==
  /\ \A k \in 1..Len(genCalls) :
       LET sl == genCalls[k].slice
       IN /\ Len(sl) >= 1 /\ Len(sl) <= batchSize
          /\ \A j \in 1..Len(sl) :
               /\ sl[j] = ChunkFirst + (k - 1) * batchSize + (j - 1)
               /\ sl[j] < ChunkFirst + ChunkLength
               /\ sl[j] \in 1..totalProperties
  /\ ChunkGenerated =>
       /\ Len(genCalls) * batchSize >= ChunkLength
       /\ (Len(genCalls) - 1) * batchSize < ChunkLength
       /\ Flatten([k \in 1..Len(genCalls) |-> genCalls[k].slice])
            = [j \in 1..ChunkLength |-> ChunkFirst + j - 1]

C37_Step ==
  /\ progress'.currentChunk # progress.currentChunk =>
       /\ progress'.currentChunk = progress.currentChunk + 1
       /\ progress.currentChunk >= 1 => ChunkGenerated
       /\ genCalls' = << >>
  /\ (genCalls' # genCalls /\ progress'.currentChunk = progress.currentChunk) =>
       (Len(genCalls') = Len(genCalls) + 1 /\ SubSeq(genCalls', 1, Len(genCalls)) = genCalls)
  /\ (orchPc' = "summarizing" /\ orchPc # "summarizing") =>
       /\ progress.currentChunk = progress.totalChunks
       /\ progress.totalChunks * ChunkSize >= totalProperties
       /\ progress.totalChunks >= 1 => ChunkGenerated

\* C37: every call of a chunk is sent consecutive requests of that chunk, at
\* most batchSize of them, and when the chunk's generation ends it has made
\* ceil(chunkLength / batchSize) calls whose slices together are the chunk's
\* requests, each once; the chunks are generated one after the other, all of
\* them before the summary, so no slice spans a chunk boundary and the calls of
\* a run number the sum over its chunks of ceil(chunkLength / batchSize).
C37_SlicesWithinChunks == [](C37_State) /\ [][C37_Step]_vars

\* 51 requests in slices of 30: the second chunk's only call carries request 51
\* alone, after the first chunk's two calls of 30 and 20.
C37_Witness ==
  /\ totalProperties = 51 /\ batchSize = 30
  /\ progress.currentChunk = 2
  /\ rawFiles # << >> /\ Len(rawFiles[1].content) = 6
  /\ orchPc = "summarizing"
  /\ Len(genCalls) = 1
  /\ genCalls[1].slice = <<51>>

\* ---- C38
\* The operator answered something other than y or Y, or nothing.
Declined == promptAnswer \notin {<<"y">>, <<"Y">>}

C38_State ==
  /\ orchPc = "aborted" =>
       /\ Declined
       /\ store = PreloadedStore
       /\ requests = << >>
       /\ progress = NewProgress(totalProperties)
       /\ genPc = "idle" /\ genCalls = << >>
       /\ rawFiles = << >>
       /\ calls = 0 /\ insPc[1] = "idle"
       /\ summary = << >>
  /\ (orchPc \notin {"start", "prompt", "thrown"} /\ store # EmptyStore /\ calls = 0
       /\ Declined) => orchPc = "aborted"

C38_Step ==
  /\ orchPc = "prompt" =>
       /\ store # EmptyStore
       /\ store' = store
       /\ rawFiles' = rawFiles
       /\ genCalls' = genCalls
       /\ orchPc' = IF promptAnswer' \in {<<"y">>, <<"Y">>}
                    THEN (IF totalProperties = 0 THEN "summarizing" ELSE "generating")
                    ELSE "aborted"
  /\ orchPc' = "aborted" => orchPc \in {"prompt", "aborted"}

\* C38: on a store that already holds records, an answer to the confirmation
\* prompt other than y or Y (no answer included) makes generateAllData return
\* at once: no request is planned, no completion call is made, no artifact is
\* written and the store is as it was.
C38_DeclineChangesNothing == [](C38_State) /\ [][C38_Step]_vars

C38_Witness ==
  /\ orchPc = "aborted"
  /\ promptAnswer = <<"">>
  /\ totalProperties = 5
  /\ store = PreloadedStore
  /\ requests = << >> /\ rawFiles = << >> /\ genCalls = << >>

====
